---- MODULE Spec2Model ----
(***************************************************************************)
(* Verification model of the SurfCast wind layer.                          *)
(*                                                                         *)
(* Part I  - the Grid Sample Store: fetchGridData, its debounce and retry  *)
(*           timers and the visibility effect, in the three variants that  *)
(*           the repository carries:                                       *)
(*             "A"  part_006 lines 151-253  (2-decimal key with zoom)      *)
(*             "B"  part_006 lines 800-859 and 1344-1403 (retry variant)   *)
(*             "ML" client/src/components/wind-layer.tsx lines 390-431     *)
(* Part II - the particle loops (ParticleSpec):                            *)
(*             "A"  LOD loop, part_006 lines 366-529                       *)
(*             "B"  dense-field loop, part_006 lines 877-1029              *)
(*             "C"  Canvas2D fallback, part_006 lines 1540-1615            *)
(*             "G2" update shader of part_002, "G3" of part_003            *)
(*           Positions are in cells of CellPx pixels, ages in steps of     *)
(*           AgeUnit frames; a moving particle advances one cell a frame   *)
(*           in the direction of the wind.                                 *)
(* Part III - the WebGL overlay (GlSpec): the wind effect with its probe   *)
(*           for WebGL and its Canvas2D fallback, in the variants "P6"     *)
(*           (part_006 lines 1418-1615) and "ML" (wind-layer.tsx lines     *)
(*           457-636), and the passes of WindGL.draw (part_002).           *)
(* Part IV - the interpolators and the LOD functions as functions of      *)
(*           their arguments (QuerySpec).                                  *)
(* Part V  - the handler of GET /api/grid-weather (ServerSpec), in the     *)
(*           variants "R12" (part_012 lines 10-50 and 313-437) and "R13"   *)
(*           (part_013 lines 147-236).                                     *)
(* Part VI - the life of the WindGL objects of part_002 under the wind     *)
(*           effect of wind-layer.tsx (LifecycleSpec): its runs, its       *)
(*           clean-ups, the render loop and the textures.                  *)
(***************************************************************************)
EXTENDS Integers, Sequences, FiniteSets, TLC

\* ------------------------------------------------------------------ bounds
MaxInflight == 1
MaxRetryTimers == 1
\* the time quantum of the model, in ms
TickMs == 300

\* the scales of the particle model: pixels per cell of the position grid,
\* frames per step of a particle's age, particles per modelled pool entry
CellPx == 1000
AgeUnit == 30
PoolDiv == 1200
\* cells per axis of the GPU particle domain; a GPU particle covers one
\* cell per frame
GpuRes == 3
\* how far beyond the canvas a held particle may be carried by origin shifts
MaxDrift == 1

\* the queries of Part IV: samples per list, the largest query coordinate,
\* the largest interpolation radius and the largest zoom level asked for
MaxSamples == 3
QMax == 3
QMaxDist == 3
MaxZoom == 20

\* the generations of texture names of Part III
MaxGen == 2

\* the server of Part V: the time that passes between two events while an
\* upstream error is recent, the requests that may await the upstream at
\* once, and the iterations after which a loop counts as not ending
ServerTickMs == 30000
MaxAwaiting == 1
MaxLoop == 9

\* the wind texture of the update-step query: the index of its last row
TexRows == 2

\* the WindGL objects that one mounted WindWaveLayer makes
MaxWinds == 3

\* ------------------------------------------------------- program constants
DEBOUNCE_MS == 600
RETRY_BASE_MS == 5000
RETRY_CAP_MS == 30000
MAX_RETRIES == 3
BASE_ZOOM == 4
LOD_PARTICLES == 1500
LOD_MIN_PARTICLES == 150
LOD_MAX_AGE == 120
LOD_AGE_JITTER == 40
LOD_RADIUS == 2000
FB_SEED_AGE == 120
FB_MAX_AGE == 80
FB_PARTICLE_COUNT == 2000
EXIT_MARGIN == 20
POS_BYTE == 255
KNOTS_E4 == 5399
GRID_CACHE_TTL == 600000
RATE_LIMIT_MS == 60000
MIN_SPAN == 120

Min(a, b) == IF a <= b THEN a ELSE b
Max(a, b) == IF a >= b THEN a ELSE b

RECURSIVE Pow2(_)
Pow2(n) == IF n <= 0 THEN 1 ELSE 2 * Pow2(n - 1)

RemoveAt(seq, i) == SubSeq(seq, 1, i - 1) \o SubSeq(seq, i + 1, Len(seq))

\* ------------------------------------------------------------------ state
VARIABLES
  impl,            \* which variant of the store is running
  viewport,        \* map.getBounds()/getZoom(): [south (1/1000 deg), zoom (1/10)]
  visible,         \* showWind || showWaves
  points,          \* useState points: [req: viewport asked for | NoVp, n: #points]
  lastBoundsRef,   \* lastBoundsRef.current ("" is NoKey)
  retryCountRef,   \* retryCountRef.current
  retryTimers,     \* pending retry timeouts, in scheduling order
  debounceTimers,  \* pending fetchTimeoutRef timeouts, in scheduling order
  inflight,        \* requests awaiting their response, by slot
  sinceMove,       \* ms since the last moveend/zoomend (capped at DEBOUNCE_MS)
  lastCall,        \* what the last step did with fetchGridData / setPoints
  settled,         \* a non-empty fetch for the current key succeeded, key unchanged since
  lastAttempt      \* progress of the retry number MAX_RETRIES for the current viewport

storeVars == <<impl, viewport, visible, points, lastBoundsRef, retryCountRef,
               retryTimers, debounceTimers, inflight, sinceMove, lastCall,
               settled, lastAttempt>>

VARIABLES
  engine,          \* which particle loop is running
  particles,       \* the pool: [x, y, age, maxAge] and what the last frame did (ev)
  csize,           \* container.getBoundingClientRect(), in cells
  dpr,             \* Math.min(window.devicePixelRatio || 1, 2)
  canvas,          \* canvas.width / canvas.height, in cells
  origin,          \* map.getPixelOrigin().x, in cells
  prevOrigin,      \* prevOrigin of the animate closure
  dirty,           \* dirty of the animate closure
  zoomDirty,       \* zoomDirty of the animate closure
  mapZoom,         \* map.getZoom()
  zoomRef,         \* zoomRef.current / the zoom the effect started with
  dataBounds,      \* the map bounds the effect started with, in world cells
  samples,         \* the grid samples (pointsRef.current), in world cells
  dataZoom,        \* the zoom of the bounds key that the samples were fetched for
  pop              \* the last step of the particle loop or of the map

particleVars == <<engine, particles, csize, dpr, canvas, origin, prevOrigin, dirty,
                  zoomDirty, mapZoom, zoomRef, dataBounds, samples, dataZoom, pop>>

VARIABLES
  fn,              \* the function the last step called; the other variables of
                   \* this group hold its arguments and its result
  query,           \* the arguments of the field query: [x, y, pts, maxDist]
  answer,          \* what the field query returned
  zq,              \* the two zoom levels of the LOD query: [z1, z2]
  lod,             \* what the LOD function returned for them: [z1, z2]
  uq,              \* the particle of the update-step query: [y, box]
  edges            \* the mercator y that each stage of the GPU pipeline uses for it

queryVars == <<fn, query, answer, zq, lod, uq, edges>>

VARIABLES
  gimpl,                  \* which overlay is running: "P6" part_006, "ML" wind-layer.tsx
  showWind,               \* the showWind prop; the wind canvas is mounted while it holds
  ctxMode,                \* the context the wind canvas has given out: none, webgl or 2d
  gpu,                    \* whether a WebGL context can be created at the moment
  webglSupported,         \* webglSupported.current: "null", "yes" or "no"
  mode,                   \* what the effect has left running: off, webgl, canvas2d, blank
  numParticles,           \* the particles of the running loop
  particleStateTextures,  \* WindGL.particleStateTextures, as texture names
  screenTextures,         \* WindGL.screenTextures, as texture names
  texGen,                 \* the generation of the textures created last
  pass,                   \* what the last draw() did, and what each pair was last written to
  probes,                 \* how many times the overlay has probed for WebGL (at most 2)
  glCalls,                \* the getContext("webgl") calls of the last step
  glStep                  \* the last step of the overlay

glVars == <<gimpl, showWind, ctxMode, gpu, webglSupported, mode, numParticles,
            particleStateTextures, screenTextures, texGen, pass, probes, glCalls,
            glStep>>

VARIABLES
  srv,               \* which server is running: "R12" part_012, "R13" part_013
  gridWeatherCache,  \* gridWeatherCache: cache key -> [data, age], age = now - timestamp
  lastGoodGridData,  \* lastGoodGridData.data, or NoBody for null
  gridRateLimit,     \* gridRateLimitUntil - now in ms, 0 once it has passed
  awaiting,          \* the requests whose handler awaits the upstream replies
  sinceError,        \* ms since the upstream last answered with an error payload
  hung,              \* the event loop is inside a loop that does not end
  sent               \* the response sent last, and what the request did

serverVars == <<srv, gridWeatherCache, lastGoodGridData, gridRateLimit, awaiting,
                sinceError, hung, sent>>

VARIABLES
  props,        \* what WindWaveLayer was last rendered with: [showWind, points]
  mounted,      \* "new" until the first effect has run, "yes", "no" after the unmount
  cleanup,      \* the WindGL whose clean-up the last run of the effect returned (0: none)
  windGlRef,    \* windGlRef.current, the number of a WindGL (0: null)
  animFrameRef, \* animFrameRef.current: the render loop whose frame request it holds
  rafQueue,     \* the render loops that have a frame request pending
  winds,        \* the WindGL objects made so far, by number
  glTextures,   \* the textures of the WebGL context that are not deleted
  cleaned,      \* the runs of initWebGL whose clean-up has run
  lifeEv        \* what the last step did

lifeVars == <<props, mounted, cleanup, windGlRef, animFrameRef, rafQueue, winds,
              glTextures, cleaned, lifeEv>>

vars == <<storeVars, particleVars, queryVars, glVars, serverVars, lifeVars>>

StoreImpls == {"A", "B", "ML"}
Souths == {0, 104}
Zooms == {40, 44}
Viewports == [south : Souths, zoom : Zooms]
NoVp == [south |-> -1, zoom |-> -1]
NoKey == <<>>
NoReq == [req |-> NoVp, last |-> FALSE]
Slots == 1..MaxInflight
Outcomes == {"ok_points", "ok_empty", "http_429", "http_500", "throw"}

\* Number.prototype.toFixed(d) of a non-negative value given in thousandths
ToFixed(milli, d) ==
  IF d = 1 THEN (milli + 50) \div 100
  ELSE IF d = 2 THEN (milli + 5) \div 10
  ELSE milli

\* Math.round of a non-negative value given in tenths
RoundTenths(t) == (t + 5) \div 10

\* the boundsKey template string of fetchGridData
BoundsKey(im, vp) ==
  IF im = "A"
    THEN <<ToFixed(vp.south, 2), RoundTenths(vp.zoom)>>
    ELSE <<ToFixed(vp.south, 1)>>

\* Math.min(5000 * Math.pow(2, k - 1), 30000)
RetryDelay(k) == Min(RETRY_BASE_MS * Pow2(k - 1), RETRY_CAP_MS)

\* a guard that lets one retry too many through
RetryAllowedLe(count) == count <= MAX_RETRIES
\* retryCountRef.current < 3
RetryAllowed(count) == count < MAX_RETRIES

FreeSlots == {s \in Slots : inflight[s] = NoReq}
FirstFree == CHOOSE s \in FreeSlots : \A t \in FreeSlots : s <= t

NoCall == [op |-> "none", called |-> FALSE, issued |-> FALSE, applied |-> FALSE,
           scheduled |-> FALSE, outcome |-> "none"]

\* if (!isRetry && boundsKey === lastBoundsRef.current) return;
Deduped(vp, isRetry) == ~isRetry /\ BoundsKey(impl, vp) = lastBoundsRef

\* the part of fetchGridData up to the await: dedupe on the key, remember
\* the key, start the request.  The request remembers whether it is the last
\* retry allowed.
FetchGridData(vp, isRetry, last) ==
  IF Deduped(vp, isRetry)
    THEN /\ UNCHANGED <<lastBoundsRef, inflight>>
    ELSE /\ FreeSlots # {}
         /\ lastBoundsRef' = BoundsKey(impl, vp)
         /\ inflight' = [inflight EXCEPT ![FirstFree] = [req |-> vp, last |-> last]]

Call(op, vp, isRetry) ==
  [NoCall EXCEPT !.op = op, !.called = TRUE, !.issued = ~Deduped(vp, isRetry)]

\* clearTimeout(ref.current): drop the timer the ref names, if still pending
ClearRef(timers) == SelectSeq(timers, LAMBDA t : ~t.isRef)
Unref(timers) == [i \in 1..Len(timers) |-> [timers[i] EXCEPT !.isRef = FALSE]]

\* bookkeeping of the two observers on a map event that sets the viewport to vp
ObserveMove(vp) ==
  /\ settled' = (settled /\ BoundsKey(impl, vp) = BoundsKey(impl, viewport))
  /\ lastAttempt' = IF vp = viewport THEN lastAttempt ELSE "none"

StoreInit ==
  /\ impl \in StoreImpls
  /\ viewport \in Viewports
  /\ visible = FALSE
  /\ points = [req |-> NoVp, n |-> 0]
  /\ lastBoundsRef = NoKey
  /\ retryCountRef = 0
  /\ retryTimers = <<>>
  /\ debounceTimers = <<>>
  /\ inflight = [s \in Slots |-> NoReq]
  /\ sinceMove = DEBOUNCE_MS
  /\ lastCall = NoCall
  /\ settled = FALSE
  /\ lastAttempt = "none"

\* ----------------------------------------------------------------- actions
\* setTimeout(fetchGridData, 600) after clearTimeout(fetchTimeoutRef.current)
ArmDebounce(timers) ==
  Append(Unref(ClearRef(timers)), [elapsed |-> 0, isRef |-> TRUE])

\* the moveend / zoomend handlers of useMapEvents (A, B): re-arm the debounce
\* timer; the onMoveEnd listener of ML: fetch at once
OnMapEvent(op, vp) ==
  IF ~visible
    THEN /\ lastCall' = [NoCall EXCEPT !.op = op]
         /\ UNCHANGED <<lastBoundsRef, inflight, debounceTimers>>
  ELSE IF impl = "ML"
    THEN /\ FetchGridData(vp, FALSE, FALSE)
         /\ lastCall' = Call(op, vp, FALSE)
         /\ UNCHANGED debounceTimers
    ELSE /\ debounceTimers' = ArmDebounce(debounceTimers)
         /\ lastCall' = [NoCall EXCEPT !.op = op]
         /\ UNCHANGED <<lastBoundsRef, inflight>>

moveend ==
  \E s \in Souths :
    LET vp == [viewport EXCEPT !.south = s] IN
    /\ viewport' = vp
    /\ sinceMove' = 0
    /\ OnMapEvent("moveend", vp)
    /\ ObserveMove(vp)
    /\ UNCHANGED <<lifeVars, particleVars, queryVars, glVars, serverVars, impl, visible, points, retryCountRef, retryTimers>>

\* MapLibre reports a finished zoom as a moveend as well, so the ML listener
\* runs for it; Leaflet runs the zoomend handler (same body as moveend)
zoomend ==
  \E z \in Zooms \ {viewport.zoom} :
    LET vp == [viewport EXCEPT !.zoom = z] IN
    /\ viewport' = vp
    /\ sinceMove' = 0
    /\ OnMapEvent("zoomend", vp)
    /\ ObserveMove(vp)
    /\ UNCHANGED <<lifeVars, particleVars, queryVars, glVars, serverVars, impl, visible, points, retryCountRef, retryTimers>>

\* showWind/showWaves toggled: the [visible, fetchGridData] effect re-runs
\* (B: after the cleanup that clears the last retry timer)
ToggleVisible ==
  /\ visible' = ~visible
  /\ retryTimers' = IF impl = "B" THEN ClearRef(retryTimers) ELSE retryTimers
  /\ IF visible'
       THEN /\ FetchGridData(viewport, FALSE, FALSE)
            /\ lastCall' = Call("toggle", viewport, FALSE)
       ELSE /\ lastCall' = [NoCall EXCEPT !.op = "toggle"]
            /\ UNCHANGED <<lastBoundsRef, inflight>>
  /\ UNCHANGED <<lifeVars, particleVars, queryVars, glVars, serverVars, impl, viewport, points, retryCountRef, debounceTimers, sinceMove,
                 settled, lastAttempt>>

\* the debounce timeout expires: setTimeout(fetchGridData, 600)
DebounceFire ==
  \E i \in 1..Len(debounceTimers) :
    /\ debounceTimers[i].elapsed >= DEBOUNCE_MS
    /\ debounceTimers' = RemoveAt(debounceTimers, i)
    /\ FetchGridData(viewport, FALSE, FALSE)
    /\ lastCall' = Call("debounce", viewport, FALSE)
    /\ UNCHANGED <<lifeVars, particleVars, queryVars, glVars, serverVars, impl, viewport, visible, points, retryCountRef, retryTimers,
                   sinceMove, settled, lastAttempt>>

\* a retry timeout expires: setTimeout(() => fetchGridData(true), delay).
\* Timeouts run in the order of their due times: a timer set earlier with a
\* delay no longer than this one's has run already.
RetryFire ==
  \E i \in 1..Len(retryTimers) :
    /\ \A j \in 1..(i - 1) : retryTimers[j].delay > retryTimers[i].delay
    /\ retryTimers' = RemoveAt(retryTimers, i)
    /\ FetchGridData(viewport, TRUE, retryTimers[i].last)
    /\ lastCall' = Call("retry", viewport, TRUE)
    /\ lastAttempt' = IF retryTimers[i].last THEN "flying" ELSE lastAttempt
    /\ UNCHANGED <<lifeVars, particleVars, queryVars, glVars, serverVars, impl, viewport, visible, points, retryCountRef, debounceTimers,
                   sinceMove, settled>>

\* the refs and state that the continuation of fetchGridData works on
Cur == [points |-> points, lastBoundsRef |-> lastBoundsRef,
        retryCountRef |-> retryCountRef, retryTimers |-> retryTimers,
        call |-> NoCall]

Answer(outcome) == [NoCall EXCEPT !.op = "respond", !.outcome = outcome]

\* retryCountRef.current++; delay = ...; lastBoundsRef.current = "";
\* retryTimerRef.current = setTimeout(...)
ScheduleRetry(st, outcome) ==
  LET k == st.retryCountRef + 1 IN
  [st EXCEPT !.retryCountRef = k,
             !.lastBoundsRef = NoKey,
             !.retryTimers = Append(Unref(@), [k |-> k, delay |-> RetryDelay(k),
                                              isRef |-> TRUE, last |-> (k = MAX_RETRIES)]),
             !.call = [Answer(outcome) EXCEPT !.scheduled = TRUE]]

\* setPoints(pts)
SetPoints(st, r, n, outcome) ==
  [st EXCEPT !.points = [req |-> r.req, n |-> n],
             !.call = [Answer(outcome) EXCEPT !.applied = TRUE]]

\* lastBoundsRef.current = ""
ForgetKey(st, outcome) ==
  [st EXCEPT !.lastBoundsRef = NoKey, !.call = Answer(outcome)]

Ignore(st, outcome) == [st EXCEPT !.call = Answer(outcome)]

\* the continuation of fetchGridData after the await, variant A
RespondA(st, r, outcome) ==
  IF outcome = "ok_points" THEN SetPoints(st, r, 1, outcome)
  ELSE IF outcome = "ok_empty" THEN SetPoints(st, r, 0, outcome)
  ELSE ForgetKey(st, outcome)

\* ... variant B
RespondB(st, r, outcome) ==
  IF outcome = "ok_points"
    THEN SetPoints([st EXCEPT !.retryCountRef = 0], r, 1, outcome)
  ELSE IF outcome = "ok_empty"
    THEN IF RetryAllowed(st.retryCountRef)
           THEN ScheduleRetry(st, outcome)
           ELSE Ignore(st, outcome)
  ELSE IF outcome = "http_429" /\ RetryAllowed(st.retryCountRef)
    THEN ScheduleRetry(st, outcome)
  ELSE ForgetKey(st, outcome)

\* ... variant ML
RespondML(st, r, outcome) ==
  IF outcome = "ok_points" THEN SetPoints(st, r, 1, outcome)
  ELSE IF outcome = "throw" THEN ForgetKey(st, outcome)
  ELSE Ignore(st, outcome)

\* an outcome other than an empty point list ends a run of empty answers:
\* no retry pending or in flight counts as the last allowed one any more
EndRun(outcome, marked) ==
  IF outcome = "ok_empty" THEN marked
  ELSE [i \in DOMAIN marked |-> [marked[i] EXCEPT !.last = FALSE]]

\* the awaited fetch of one in-flight request settles
Respond ==
  \E s \in Slots, outcome \in Outcomes :
    LET r == inflight[s]
        new == IF impl = "A" THEN RespondA(Cur, r, outcome)
               ELSE IF impl = "B" THEN RespondB(Cur, r, outcome)
               ELSE RespondML(Cur, r, outcome)
    IN
    /\ r # NoReq
    /\ Len(new.retryTimers) <= MaxRetryTimers
    /\ inflight' = EndRun(outcome, [inflight EXCEPT ![s] = NoReq])
    /\ points' = new.points
    /\ lastBoundsRef' = new.lastBoundsRef
    /\ retryCountRef' = new.retryCountRef
    /\ retryTimers' = EndRun(outcome, new.retryTimers)
    /\ lastCall' = new.call
    /\ settled' = (settled \/ (outcome = "ok_points"
                                /\ BoundsKey(impl, r.req) = BoundsKey(impl, viewport)))
    /\ lastAttempt' =
         IF outcome # "ok_empty" THEN "none"
         ELSE IF r.last /\ lastAttempt = "flying" THEN "done"
         ELSE lastAttempt
    /\ UNCHANGED <<lifeVars, particleVars, queryVars, glVars, serverVars, impl, viewport, visible, debounceTimers, sinceMove>>

\* TickMs pass; a due debounce timer runs before more time passes
Tick ==
  /\ sinceMove < DEBOUNCE_MS
  /\ \A i \in 1..Len(debounceTimers) : debounceTimers[i].elapsed < DEBOUNCE_MS
  /\ debounceTimers' = [i \in 1..Len(debounceTimers) |->
        [debounceTimers[i] EXCEPT !.elapsed = Min(@ + TickMs, DEBOUNCE_MS)]]
  /\ sinceMove' = Min(sinceMove + TickMs, DEBOUNCE_MS)
  /\ lastCall' = [NoCall EXCEPT !.op = "tick"]
  /\ UNCHANGED <<lifeVars, particleVars, queryVars, glVars, serverVars, impl, viewport, visible, points, lastBoundsRef, retryCountRef,
                 retryTimers, inflight, settled, lastAttempt>>

StoreNext ==
  \/ moveend
  \/ zoomend
  \/ ToggleVisible
  \/ DebounceFire
  \/ RetryFire
  \/ Respond
  \/ Tick


\* ==================================================== Part II: particles
Engines == {"A", "B", "C", "G2", "G3"}
CSizes == {[w |-> 3, h |-> 1], [w |-> 1, h |-> 1]}
Origins == {0, 1}
PZooms == {4, 7}

\* grid samples in world cells; u, v, speed in tenths of a knot
SampleSets ==
  { << [x |-> 0, y |-> 0, u |-> 100, v |-> 0, speed |-> 100] >>,
    << [x |-> 1, y |-> 0, u |-> 0, v |-> 100, speed |-> 100] >>,
    << [x |-> 0, y |-> 0, u |-> 100, v |-> 0, speed |-> 100],
       [x |-> 3, y |-> 0, u |-> -100, v |-> 0, speed |-> 100] >>,
    << [x |-> 3, y |-> 1, u |-> -100, v |-> -100, speed |-> 141] >>,
    << [x |-> 1, y |-> 0, u |-> 0, v |-> 0, speed |-> 0] >> }

Sgn(n) == IF n > 0 THEN 1 ELSE IF n < 0 THEN -1 ELSE 0

\* Math.round(num / den) for num >= 0, den > 0
RoundDiv(num, den) == (2 * num + den) \div (2 * den)

ScaleAge(frames) == frames \div AgeUnit
Cells(px) == px \div CellPx
PoolLen(count) == (count + PoolDiv - 1) \div PoolDiv

\* getZoomParams without the clamp of delta at 0 (the variant that C16 and
\* C17 are tested against)
GetZoomParamsNoClamp(zoom) ==
  LET z == Max(2, Min(zoom, 18))
      delta == z - BASE_ZOOM
      m == Min(6, delta)
  IN [particleCount |-> Max(LOD_MIN_PARTICLES,
                            RoundDiv(LOD_PARTICLES * (360 - 9 * m * m), 360)),
      trailFade |-> Min(864, 828 + m * m),
      maxAge |-> RoundDiv(LOD_MAX_AGE * (360 + 8 * m * m), 360),
      interpRadius |-> LOD_RADIUS + 500 * delta * delta]

\* getZoomParams: t = m / 6 and ease = m * m / 36 with m = min(6, delta).
\* At m = 5 the double product 1500 * (1 - ease * 0.9) is 562.4999999999999,
\* which Math.round takes down.  trailFade is in 1/900: 0.92 is 828, 0.96 is
\* 864 and ease * 0.04 is m * m.
GetZoomParams(zoom) ==
  LET z == Max(2, Min(zoom, 18))
      delta == Max(0, z - BASE_ZOOM)
      m == Min(6, delta)
      count == IF m = 5 THEN RoundDiv(LOD_PARTICLES * (360 - 9 * m * m), 360) - 1
               ELSE RoundDiv(LOD_PARTICLES * (360 - 9 * m * m), 360)
  IN [particleCount |-> Max(LOD_MIN_PARTICLES, count),
      trailFade |-> Min(864, 828 + m * m),
      maxAge |-> RoundDiv(LOD_MAX_AGE * (360 + 8 * m * m), 360),
      interpRadius |-> LOD_RADIUS + 500 * delta * delta]

\* the result of a field query that found no data (null)
NoWind == [u |-> 0, v |-> 0, speed |-> 0, den |-> 0]

\* (a wider exact-match test, the variant that C13 is tested against)
CoincidentWide(distSq) == distSq < 2

\* if (distSq < 1) / if (d2 < 1): the sample is at the query point
Coincident(distSq) == distSq < 1

\* the loop of the inverse-distance interpolations, from sample i on.  The
\* sums are kept as integers over the common denominator acc.d; the weight
\* of a sample is 1 / distSq^pow; samples beyond maxDistSq are skipped
\* (maxDistSq < 0: no cut-off); a coincident sample is returned as it is.
RECURSIVE IdwFrom(_, _, _, _, _, _, _)
IdwFrom(i, acc, x, y, spts, maxDistSq, pow) ==
  IF i > Len(spts)
    THEN IF acc.w = 0 THEN NoWind
         ELSE [u |-> acc.u, v |-> acc.v, speed |-> acc.s, den |-> acc.w]
    ELSE LET sp == spts[i]
             distSq == (x - sp.x) * (x - sp.x) + (y - sp.y) * (y - sp.y)
             q == IF pow = 2 THEN distSq * distSq ELSE distSq
         IN IF maxDistSq >= 0 /\ distSq > maxDistSq
              THEN IdwFrom(i + 1, acc, x, y, spts, maxDistSq, pow)
            ELSE IF Coincident(distSq)
              THEN [u |-> sp.u, v |-> sp.v, speed |-> sp.speed, den |-> 1]
            ELSE IdwFrom(i + 1,
                         [u |-> acc.u * q + sp.u * acc.d,
                          v |-> acc.v * q + sp.v * acc.d,
                          s |-> acc.s * q + sp.speed * acc.d,
                          w |-> acc.w * q + acc.d,
                          d |-> acc.d * q],
                         x, y, spts, maxDistSq, pow)

IdwZero == [u |-> 0, v |-> 0, s |-> 0, w |-> 0, d |-> 1]

\* interpolateWind without the cut-off (the variant that C11 is tested
\* against)
InterpolateWindNoCut(x, y, screenPoints, maxDist) ==
  IF Len(screenPoints) = 0 THEN NoWind
  ELSE IdwFrom(1, IdwZero, x, y, screenPoints, -1, 1)

\* interpolateWind of the LOD loop (weights 1/d^2, cut-off maxDist)
InterpolateWind(x, y, screenPoints, maxDist) ==
  IF Len(screenPoints) = 0 THEN NoWind
  ELSE IdwFrom(1, IdwZero, x, y, screenPoints, maxDist * maxDist, 1)

\* interpolateWind of the Canvas2D fallback (weights 1/d^4, no cut-off)
InterpolateWindFb(x, y, pts) == IdwFrom(1, IdwZero, x, y, pts, -1, 2)

\* one texel of buildWindField (weights 1/d^4) / of encodeWindToTexture
\* (weights 1/d^2): zero wind when there is no sample at all
FieldTexel(x, y, pts, pow) ==
  LET r == IdwFrom(1, IdwZero, x, y, pts, -1, pow) IN
  IF r = NoWind THEN [u |-> 0, v |-> 0, speed |-> 0, den |-> 1] ELSE r

\* projectGridToScreen: layer coordinates of the samples
ProjectGridToScreen(pts, org) ==
  [i \in 1..Len(pts) |-> [pts[i] EXCEPT !.x = @ - org]]

\* syncCanvasSize: the canvas takes the (scaled) size of the container
SyncCanvasSize(rect, ratio) == [w |-> rect.w * ratio, h |-> rect.h * ratio]

Respawned(ev) == ev \in {"respawn_nodata", "respawn_exit", "respawn_age", "respawn_drop"}
NoData(ev) == ev \in {"hold_nodata", "respawn_nodata"}
Exited(ev) == ev \in {"respawn_exit", "wrap"}

\* position 1.0 and one cell of the GPU domain, in 1/65025
PosOne == POS_BYTE * POS_BYTE
GpuUnit == PosOne \div GpuRes
\* the RGBA packing of a position: fract(pos * 255), floor(pos * 255) / 255
EncodePos(pos) == [lo |-> pos % POS_BYTE, hi |-> pos \div POS_BYTE]
\* color.r / 255 + color.b
DecodePos(c) == c.lo + POS_BYTE * c.hi
\* a position written to the state texture and read back, in cells
Stored(cell) == DecodePos(EncodePos(cell * GpuUnit)) \div GpuUnit
\* rand() is in [0, 1); the random bytes of a fresh texture reach 1.0
GpuRandom == 0..(GpuRes - 1)
GpuSeeds == 0..GpuRes

\* createParticle(w, h, maxAge) of the LOD loop: every particle it can return
CreateParticle(w, h, maxAge) ==
  {[x |-> x, y |-> y, age |-> a, maxAge |-> m, ev |-> "seed"] :
      x \in 0..(w - 1), y \in 0..(h - 1),
      a \in 0..ScaleAge(maxAge - 1),
      m \in ScaleAge(maxAge)..ScaleAge(maxAge + LOD_AGE_JITTER - 1)}

\* TRAIL_LENGTH of the dense-field loop
TrailLength(zoom) == IF zoom > 8 THEN 20 ELSE IF zoom > 5 THEN 30 ELSE 40

\* the dense-field pool entry after resetParticle(p) and the seeding of its age
SeedDense(rect, zoom) ==
  LET hi == ScaleAge(2 * TrailLength(zoom) - 1) IN
  {p \in [x : 0..(rect.w - 1), y : 0..(rect.h - 1), age : 0..hi,
          maxAge : ScaleAge(TrailLength(zoom))..hi, ev : {"seed"}] :
      p.age <= p.maxAge}

\* the pool entries pushed by initCanvas2DFallback
SeedFallback(cv) ==
  {[x |-> x, y |-> y, age |-> a, maxAge |-> m, ev |-> "seed"] :
      x \in 0..(cv.w - 1), y \in 0..(cv.h - 1),
      a \in 0..ScaleAge(FB_SEED_AGE - 1),
      m \in ScaleAge(FB_MAX_AGE)..ScaleAge(FB_MAX_AGE + FB_MAX_AGE - 1)}

\* the particle state texture filled by setNumParticles (random bytes)
SeedGpu ==
  {[x |-> x, y |-> y, age |-> 0, maxAge |-> 0, ev |-> "seed"] :
      x \in GpuSeeds, y \in GpuSeeds}

\* the random numbers a respawn draws: a position and a scaled maxAge
Draws(w, h, lo, hi) == [x : 0..(w - 1), y : 0..(h - 1), m : lo..hi]
GpuDraws == [x : GpuRandom, y : GpuRandom, drop : BOOLEAN]

Reset(d, why) == [x |-> d.x, y |-> d.y, age |-> 0, maxAge |-> d.m, ev |-> why]

\* wind.speed < 0.1 and mag > 0.01, speeds being in tenths of a knot
Calm(wind) == wind.speed < wind.den
HasDirection(wind) == 100 * (wind.u * wind.u + wind.v * wind.v) > wind.den * wind.den

\* one iteration of the particle loop of animate, LOD variant: w and h are
\* the canvas size read at the top of animate
StepLod(p, w, h, spts, radius, d) ==
  LET wind == InterpolateWind(p.x, p.y, spts, radius) IN
  IF wind = NoWind \/ Calm(wind)
    THEN [p EXCEPT !.age = p.maxAge,
                   !.ev = IF wind = NoWind THEN "hold_nodata" ELSE "hold_calm"]
    ELSE LET nx == IF HasDirection(wind) THEN p.x + Sgn(wind.u) ELSE p.x
             ny == IF HasDirection(wind) THEN p.y - Sgn(wind.v) ELSE p.y
             age == p.age + 1
             out == nx < 0 \/ nx > w \/ ny < 0 \/ ny > h
         IN IF out \/ age >= p.maxAge
              THEN Reset(d, IF out THEN "respawn_exit" ELSE "respawn_age")
              ELSE [x |-> nx, y |-> ny, age |-> age, maxAge |-> p.maxAge, ev |-> "move"]

\* ... dense-field variant: rect is the container rectangle of this frame
StepDense(p, rect, org, db, pts, d) ==
  LET wx == p.x + org
      wy == p.y
  IN IF wx < db.x \/ wx > db.x + db.w \/ wy < 0 \/ wy > db.h
       THEN Reset(d, "respawn_nodata")
       ELSE LET wind == FieldTexel(wx, wy, pts, 2)
                nx == p.x + Sgn(wind.u)
                ny == p.y - Sgn(wind.v)
                age == p.age + 1
                out == \/ nx < 0 - Cells(EXIT_MARGIN) \/ nx > rect.w + Cells(EXIT_MARGIN)
                       \/ ny < 0 - Cells(EXIT_MARGIN) \/ ny > rect.h + Cells(EXIT_MARGIN)
            IN IF age > p.maxAge \/ out
                 THEN Reset(d, IF out THEN "respawn_exit" ELSE "respawn_age")
                 ELSE [x |-> nx, y |-> ny, age |-> age, maxAge |-> p.maxAge, ev |-> "move"]

\* ... Canvas2D fallback: cv is the canvas size after syncCanvasSize
StepFallback(p, cv, spts, d) ==
  LET wind == InterpolateWindFb(p.x, p.y, spts) IN
  IF wind = NoWind
    THEN Reset(d, "respawn_nodata")
    ELSE LET nx == p.x + Sgn(wind.u)
             ny == p.y - Sgn(wind.v)
             age == p.age + 1
             out == nx < 0 \/ nx > cv.w \/ ny < 0 \/ ny > cv.h
         IN IF age > p.maxAge \/ out
              THEN Reset(d, IF out THEN "respawn_exit" ELSE "respawn_age")
              ELSE [x |-> nx, y |-> ny, age |-> age, maxAge |-> p.maxAge, ev |-> "move"]

\* lookup_wind_bilinear at a particle position: the texel of the wind texture
LookupWind(p, db, pts) ==
  FieldTexel(db.x + (p.x * db.w) \div GpuRes, (p.y * db.h) \div GpuRes, pts, 1)

Clamp01(pos) == Max(0, Min(pos, GpuRes))

\* FRAG_UPDATE of wind-gl.ts (part_002): respawn when out of bounds
FragUpdateRespawn(p, db, pts, d) ==
  LET vel == LookupWind(p, db, pts)
      nx == p.x + Sgn(vel.u)
      ny == p.y + Sgn(vel.v)
      oob == nx <= 0 \/ nx >= GpuRes \/ ny <= 0 \/ ny >= GpuRes
      drop == d.drop \/ oob
      px == Clamp01(IF drop THEN d.x ELSE nx)
      py == Clamp01(IF drop THEN d.y ELSE ny)
  IN [x |-> Stored(px), y |-> Stored(py),
      age |-> 0, maxAge |-> 0,
      ev |-> IF oob THEN "respawn_exit" ELSE IF drop THEN "respawn_drop" ELSE "move"]

\* FRAG_UPDATE of part_003: pos = fract(pos + offset + 1.0)
FragUpdateFract(p, db, pts, d) ==
  LET vel == LookupWind(p, db, pts)
      nx == p.x + Sgn(vel.u)
      ny == p.y + Sgn(vel.v)
      left == nx < 0 \/ nx >= GpuRes \/ ny < 0 \/ ny >= GpuRes
      fx == (nx + GpuRes) % GpuRes
      fy == (ny + GpuRes) % GpuRes
      px == IF d.drop THEN d.x ELSE fx
      py == IF d.drop THEN d.y ELSE fy
  IN [x |-> Stored(px), y |-> Stored(py),
      age |-> 0, maxAge |-> 0,
      ev |-> IF d.drop THEN "respawn_drop" ELSE IF left THEN "wrap" ELSE "move"]

\* the pool of an engine right after its effect has set it up; the loops
\* other than the LOD one treat every particle alike, one entry is followed
SeedPool(e, cv, rect, zoom) ==
  IF e = "A"
    THEN [1..PoolLen(GetZoomParams(zoom).particleCount) ->
            CreateParticle(cv.w, cv.h, GetZoomParams(zoom).maxAge)]
  ELSE IF e = "B" THEN [1..1 -> SeedDense(rect, zoom)]
  ELSE IF e = "C" THEN [1..1 -> SeedFallback(cv)]
  ELSE [1..1 -> SeedGpu]

ParticleInit ==
  /\ engine \in Engines
  /\ csize = [w |-> 3, h |-> 1]
  /\ dpr \in (IF engine = "B" THEN {1, 2} ELSE {1})
  /\ canvas = SyncCanvasSize(csize, dpr)
  /\ origin = 0
  /\ prevOrigin = origin
  /\ dirty = FALSE
  /\ zoomDirty = FALSE
  /\ mapZoom \in PZooms
  /\ zoomRef = mapZoom
  /\ dataBounds = [x |-> origin, w |-> csize.w, h |-> csize.h]
  /\ samples \in SampleSets
  /\ dataZoom = mapZoom
  /\ particles \in SeedPool(engine, canvas, csize, mapZoom)
  /\ pop = "init"

\* the state of the particle side while only the store is looked at; the
\* variables that hold records are pinned to the empty tuple
ParticleIdle ==
  /\ engine = "A"
  /\ csize = <<>>
  /\ dpr = 1
  /\ canvas = <<>>
  /\ origin = 0
  /\ prevOrigin = 0
  /\ dirty = FALSE
  /\ zoomDirty = FALSE
  /\ mapZoom = 4
  /\ zoomRef = 4
  /\ dataBounds = <<>>
  /\ samples = <<>>
  /\ dataZoom = 4
  /\ particles = <<>>
  /\ pop = "init"

\* the state of the store while only the particle loop is looked at
StoreIdle ==
  /\ impl = "B"
  /\ viewport = [south |-> 0, zoom |-> 40]
  /\ visible = TRUE
  /\ points = [req |-> viewport, n |-> 1]
  /\ lastBoundsRef = BoundsKey(impl, viewport)
  /\ retryCountRef = 0
  /\ retryTimers = <<>>
  /\ debounceTimers = <<>>
  /\ inflight = [s \in Slots |-> NoReq]
  /\ sinceMove = DEBOUNCE_MS
  /\ lastCall = NoCall
  /\ settled = TRUE
  /\ lastAttempt = "none"

\* the pending origin shift keeps every particle within MaxDrift of the canvas
DriftBounded(o) ==
  \A i \in 1..Len(particles) :
     /\ particles[i].x + (prevOrigin - o) >= 0 - MaxDrift
     /\ particles[i].x + (prevOrigin - o) <= canvas.w + MaxDrift

\* onMove of the LOD loop (move, moveend); the other loops have no handler
\* state.  A view reset moves the pixel origin.
MapMove ==
  \E o \in Origins :
    /\ DriftBounded(o)
    /\ origin' = o
    /\ dirty' = (dirty \/ engine = "A")
    /\ pop' = "move"
    /\ UNCHANGED <<lifeVars, storeVars, queryVars, glVars, serverVars, engine, dataZoom, particles, csize, dpr, canvas, prevOrigin,
                   zoomDirty, mapZoom, zoomRef, dataBounds, samples>>

\* onZoom of the LOD loop (zoom, zoomend)
MapZoom ==
  \E z \in PZooms \ {mapZoom}, o \in Origins :
    /\ DriftBounded(o)
    /\ mapZoom' = z
    /\ origin' = o
    /\ dirty' = (dirty \/ engine = "A")
    /\ zoomDirty' = (zoomDirty \/ engine = "A")
    /\ pop' = "zoom"
    /\ UNCHANGED <<lifeVars, storeVars, queryVars, glVars, serverVars, engine, dataZoom, particles, csize, dpr, canvas, prevOrigin,
                   zoomRef, dataBounds, samples>>

\* the container is resized; onResize of the WebGL path syncs the canvas at
\* once, the Canvas2D loops do it in their next frame
Resize ==
  \E c \in CSizes \ {csize} :
    /\ csize' = c
    /\ canvas' = IF engine \in {"G2", "G3"} THEN SyncCanvasSize(c, dpr) ELSE canvas
    /\ pop' = "resize"
    /\ UNCHANGED <<lifeVars, storeVars, queryVars, glVars, serverVars, engine, dataZoom, particles, dpr, origin, prevOrigin, dirty,
                   zoomDirty, mapZoom, zoomRef, dataBounds, samples>>

\* every pool whose i-th entry is one of alts[i]
PoolsOf(alts) ==
  {f \in [1..Len(alts) -> UNION {alts[i] : i \in 1..Len(alts)}] :
      \A i \in 1..Len(alts) : f[i] \in alts[i]}

Shift(pool, dx) == [i \in 1..Len(pool) |-> [pool[i] EXCEPT !.x = @ + dx]]

\* animate of the LOD loop (part_006 409-518), one frame
AnimateLod ==
  /\ engine = "A"
  /\ LET w == canvas.w
         h == canvas.h
         synced == IF dirty THEN SyncCanvasSize(csize, 1) ELSE canvas
         dx == prevOrigin - origin
         shifted == IF dirty /\ ~zoomDirty /\ dx # 0 THEN Shift(particles, dx)
                    ELSE particles
         rezoom == zoomDirty /\ mapZoom # zoomRef
         zp == GetZoomParams(IF rezoom THEN mapZoom ELSE zoomRef)
         targetCount == IF rezoom THEN PoolLen(zp.particleCount) ELSE Len(shifted)
         spts == ProjectGridToScreen(samples, origin)
     IN
     /\ \E extra \in [1..Max(0, targetCount - Len(shifted)) ->
                        CreateParticle(synced.w, synced.h, zp.maxAge)] :
          LET pool == IF Len(shifted) > targetCount
                        THEN SubSeq(shifted, 1, targetCount)
                        ELSE shifted \o extra
          IN particles' \in PoolsOf([i \in 1..Len(pool) |->
               {StepLod(pool[i], w, h, spts, Cells(zp.interpRadius), d) :
                  d \in Draws(w, h, ScaleAge(zp.maxAge),
                              ScaleAge(zp.maxAge + LOD_AGE_JITTER - 1))}])
     /\ canvas' = synced
     /\ prevOrigin' = IF dirty THEN origin ELSE prevOrigin
     /\ zoomRef' = IF rezoom THEN mapZoom ELSE zoomRef
  /\ dirty' = FALSE
  /\ zoomDirty' = FALSE
  /\ pop' = "frame"
  /\ UNCHANGED <<lifeVars, storeVars, queryVars, glVars, serverVars, engine, dataZoom, csize, dpr, origin, mapZoom, dataBounds, samples>>

\* animate of the dense-field loop (part_006 935-1016), one frame
AnimateDense ==
  /\ engine = "B"
  /\ canvas' = SyncCanvasSize(csize, dpr)
  /\ particles' \in PoolsOf([i \in 1..Len(particles) |->
       {StepDense(particles[i], csize, origin, dataBounds, samples, d) :
          d \in Draws(csize.w, csize.h, ScaleAge(TrailLength(zoomRef)),
                      ScaleAge(2 * TrailLength(zoomRef) - 1))}])
  /\ pop' = "frame"
  /\ UNCHANGED <<lifeVars, storeVars, queryVars, glVars, serverVars, engine, dataZoom, csize, dpr, origin, prevOrigin, dirty, zoomDirty,
                 mapZoom, zoomRef, dataBounds, samples>>

\* animate of the Canvas2D fallback (part_006 1564-1603), one frame
AnimateFallback ==
  /\ engine = "C"
  /\ canvas' = SyncCanvasSize(csize, 1)
  /\ particles' \in PoolsOf([i \in 1..Len(particles) |->
       {StepFallback(particles[i], canvas', ProjectGridToScreen(samples, origin), d) :
          d \in Draws(canvas'.w, canvas'.h, ScaleAge(FB_MAX_AGE),
                      ScaleAge(FB_MAX_AGE + FB_MAX_AGE - 1))}])
  /\ pop' = "frame"
  /\ UNCHANGED <<lifeVars, storeVars, queryVars, glVars, serverVars, engine, dataZoom, csize, dpr, origin, prevOrigin, dirty, zoomDirty,
                 mapZoom, zoomRef, dataBounds, samples>>

\* WindGL.updateParticles: the update shader runs over the state texture
UpdateParticles ==
  /\ engine \in {"G2", "G3"}
  /\ particles' \in PoolsOf([i \in 1..Len(particles) |->
       {IF engine = "G2"
          THEN FragUpdateRespawn(particles[i], dataBounds, samples, d)
          ELSE FragUpdateFract(particles[i], dataBounds, samples, d) : d \in GpuDraws}])
  /\ pop' = "frame"
  /\ UNCHANGED <<lifeVars, storeVars, queryVars, glVars, serverVars, engine, dataZoom, csize, dpr, canvas, origin, prevOrigin, dirty,
                 zoomDirty, mapZoom, zoomRef, dataBounds, samples>>

\* the effect of the LOD loop runs again (part_006 366-407) because points
\* has a new value: the zoom is part of the bounds key of fetchGridData, so
\* zoomend had the samples fetched again, 600 ms later, and the response was
\* given to setPoints (here with the same samples as before, and after a
\* frame has been drawn)
EffectRerun ==
  /\ engine = "A"
  /\ mapZoom # dataZoom
  /\ pop = "frame"
  /\ dataZoom' = mapZoom
  /\ samples' = samples
  /\ canvas' = SyncCanvasSize(csize, 1)
  /\ zoomRef' = mapZoom
  /\ particles' \in SeedPool(engine, canvas', csize, mapZoom)
  /\ prevOrigin' = origin
  /\ dirty' = FALSE
  /\ zoomDirty' = FALSE
  /\ dataBounds' = [x |-> origin, w |-> csize.w, h |-> csize.h]
  /\ pop' = "effect"
  /\ UNCHANGED <<lifeVars, storeVars, queryVars, glVars, serverVars, engine, csize, dpr, origin, mapZoom>>

ParticleNext ==
  \/ MapMove
  \/ MapZoom
  \/ Resize
  \/ AnimateLod
  \/ AnimateDense
  \/ AnimateFallback
  \/ UpdateParticles

\* ============================================ Part III: the WebGL overlay
GlImpls == {"P6", "ML"}

\* no texture: the name -1
NoTexture == 0 - 1
NoPair == <<NoTexture, NoTexture>>
NoPass == [passes |-> <<>>, stateRead |-> NoTexture, stateWritten |-> NoTexture,
           stateDue |-> NoTexture, particlesRead |-> NoTexture,
           screenRead |-> NoTexture, screenWritten |-> NoTexture,
           screenDue |-> NoTexture, presented |-> NoTexture]

\* createTexture, twice: the names of the two particle-state textures and of
\* the two screen textures of generation g; the names of deleted textures
\* are used again after MaxGen generations
StatePair(g) == <<4 * g, 4 * g + 1>>
ScreenPair(g) == <<4 * g + 2, 4 * g + 3>>
NextGen(g) == (g + 1) % (MaxGen + 1)

\* setNumParticles: res = ceil(sqrt(count)), numParticles = res * res
NumParticles(count) ==
  LET res == CHOOSE r \in 1..256 : r * r >= count /\ (r - 1) * (r - 1) < count
  IN res * res

\* the particle count that initWebGL asks for at a zoom level
GlParticleCount(variant, zoom) ==
  IF variant = "ML" THEN 65536
  ELSE IF zoom > 8 THEN 16384 ELSE IF zoom > 5 THEN 32768 ELSE 65536

\* canvas.getContext("webgl"): the context that the canvas has given out
\* before, or a new one if the canvas has given out none and one can be made
GetContextWebgl(cm, g) == cm = "webgl" \/ (cm = "none" /\ g)
\* canvas.getContext("2d")
GetContext2d(cm) == cm \in {"none", "2d"}

\* (probing on every run of the effect, the variant that C19 is tested
\* against)
ProbeAlways(flag) == TRUE

\* if (webglSupported.current === null)
ProbeNeeded(flag) == flag = "null"

\* (updateParticles without the swap, the variant that C18 is tested against)
WindGLUpdateNoSwap(state) ==
  [read |-> state[1], written |-> state[2], tex |-> state]

\* updateParticles: the update pass reads particleStateTextures[0], renders
\* into particleStateTextures[1], and the two change places
WindGLUpdateParticles(state) ==
  [read |-> state[1], written |-> state[2], tex |-> <<state[2], state[1]>>]

\* drawScreen: the fade pass reads screenTextures[0] and renders into
\* screenTextures[1], the draw pass adds the particles read from
\* particleStateTextures[0], screenTextures[1] is presented, and the two
\* change places
WindGLDrawScreen(screen, state) ==
  [fadeRead |-> screen[1], written |-> screen[2], particlesRead |-> state[1],
   presented |-> screen[2], tex |-> <<screen[2], screen[1]>>]

\* the overlay while another part of the model is looked at; the variables
\* that hold tuples and records are pinned to the empty tuple
GlIdle ==
  /\ gimpl = "P6"
  /\ showWind = FALSE
  /\ ctxMode = "none"
  /\ gpu = TRUE
  /\ webglSupported = "null"
  /\ mode = "off"
  /\ numParticles = 0
  /\ particleStateTextures = <<>>
  /\ screenTextures = <<>>
  /\ texGen = 0
  /\ pass = <<>>
  /\ probes = 0
  /\ glCalls = 0
  /\ glStep = "init"

\* the overlay is mounted with showWind off; points is taken to be non-empty
GlInit ==
  /\ gimpl \in GlImpls
  /\ showWind = FALSE
  /\ ctxMode = "none"
  /\ gpu \in BOOLEAN
  /\ webglSupported = "null"
  /\ mode = "off"
  /\ numParticles = 0
  /\ particleStateTextures = NoPair
  /\ screenTextures = NoPair
  /\ texGen = 0
  /\ pass = NoPass
  /\ probes = 0
  /\ glCalls = 0
  /\ glStep = "init"

\* the body of the wind effect with showWind on, on a canvas whose context
\* is cm0: the probe, the context for WindGL, then initWebGL or
\* initCanvas2DFallback
RunEffect(cm0, step) ==
  LET probe == ProbeNeeded(webglSupported)
      testGl == GetContextWebgl(cm0, gpu)
      flag1 == IF probe THEN (IF testGl THEN "yes" ELSE "no") ELSE webglSupported
      cm1 == IF probe /\ testGl THEN "webgl" ELSE cm0
      acquire == flag1 = "yes"
      gl == acquire /\ GetContextWebgl(cm1, gpu)
      ctx2d == ~gl /\ GetContext2d(cm1)
  IN /\ webglSupported' = IF acquire /\ ~gl THEN "no" ELSE flag1
     /\ probes' = IF probe THEN Min(2, probes + 1) ELSE probes
     /\ glCalls' = (IF probe THEN 1 ELSE 0) + (IF acquire THEN 1 ELSE 0)
     /\ ctxMode' = IF gl THEN "webgl" ELSE IF ctx2d THEN "2d" ELSE cm1
     /\ pass' = NoPass
     /\ glStep' = step
     /\ IF gl
          THEN \* initWebGL: new WindGL(gl), setWind, setNumParticles, the loop
               /\ mode' = "webgl"
               /\ texGen' = NextGen(texGen)
               /\ particleStateTextures' = StatePair(texGen')
               /\ screenTextures' = ScreenPair(texGen')
               /\ \E zoom \in PZooms :
                    numParticles' = NumParticles(GlParticleCount(gimpl, zoom))
          ELSE \* initCanvas2DFallback: the loop of part_006; wind-layer.tsx
               \* clears the canvas and starts no loop
               /\ mode' = IF ctx2d /\ gimpl = "P6" THEN "canvas2d" ELSE "blank"
               /\ numParticles' = IF ctx2d /\ gimpl = "P6" THEN FB_PARTICLE_COUNT ELSE 0
               /\ particleStateTextures' = NoPair
               /\ screenTextures' = NoPair
               /\ texGen' = texGen

\* showWind is switched on: a new canvas is mounted and the effect runs
Show ==
  /\ ~showWind
  /\ showWind' = TRUE
  /\ RunEffect("none", "show")
  /\ UNCHANGED <<lifeVars, storeVars, particleVars, queryVars, serverVars, gimpl, gpu>>

\* points has a new value while showWind is on: the clean-up of the last
\* run (wind.destroy()), then the effect again on the same canvas
PointsChange ==
  /\ showWind
  /\ RunEffect(ctxMode, "points")
  /\ UNCHANGED <<lifeVars, storeVars, particleVars, queryVars, serverVars, gimpl, gpu, showWind>>

\* showWind is switched off: the clean-up of the last run, the effect
\* returns early, the canvas is unmounted
Hide ==
  /\ showWind
  /\ showWind' = FALSE
  /\ ctxMode' = "none"
  /\ mode' = "off"
  /\ numParticles' = 0
  /\ particleStateTextures' = NoPair
  /\ screenTextures' = NoPair
  /\ pass' = NoPass
  /\ glCalls' = 0
  /\ glStep' = "hide"
  /\ UNCHANGED <<lifeVars, storeVars, particleVars, queryVars, serverVars, gimpl, gpu, webglSupported, texGen,
                 probes>>

\* the browser loses or regains the means to create WebGL contexts
GpuChange ==
  /\ gpu' = ~gpu
  /\ glCalls' = 0
  /\ glStep' = "gpu"
  /\ UNCHANGED <<lifeVars, storeVars, particleVars, queryVars, serverVars, gimpl, showWind, ctxMode,
                 webglSupported, mode, numParticles, particleStateTextures,
                 screenTextures, texGen, pass, probes>>

\* animate / renderLoop of initWebGL: wind.draw(), which has its wind data
\* since initWebGL called setWind: drawScreen, then updateParticles
Draw ==
  /\ mode = "webgl"
  /\ LET s == WindGLDrawScreen(screenTextures, particleStateTextures)
         u == WindGLUpdateParticles(particleStateTextures)
     IN /\ screenTextures' = s.tex
        /\ particleStateTextures' = u.tex
        /\ pass' = [passes |-> <<"fade", "draw", "update">>,
                    stateRead |-> u.read, stateWritten |-> u.written,
                    stateDue |-> pass.stateWritten,
                    particlesRead |-> s.particlesRead,
                    screenRead |-> s.fadeRead, screenWritten |-> s.written,
                    screenDue |-> pass.screenWritten,
                    presented |-> s.presented]
  /\ glCalls' = 0
  /\ glStep' = "draw"
  /\ UNCHANGED <<lifeVars, storeVars, particleVars, queryVars, serverVars, gimpl, showWind, ctxMode, gpu,
                 webglSupported, mode, numParticles, texGen, probes>>

\* onResize of initWebGL (part_006): the canvas takes the new size and
\* wind.resizeScreen() replaces the two screen textures
OnResize ==
  /\ mode = "webgl"
  /\ gimpl = "P6"
  /\ texGen' = NextGen(texGen)
  /\ screenTextures' = ScreenPair(texGen')
  /\ pass' = [pass EXCEPT !.screenWritten = NoTexture]
  /\ glCalls' = 0
  /\ glStep' = "resize"
  /\ UNCHANGED <<lifeVars, storeVars, particleVars, queryVars, serverVars, gimpl, showWind, ctxMode, gpu,
                 webglSupported, mode, numParticles, particleStateTextures, probes>>

\* animate of initCanvas2DFallback (part_006), one frame
FallbackFrame ==
  /\ mode = "canvas2d"
  /\ glCalls' = 0
  /\ glStep' = "fallback_frame"
  /\ UNCHANGED <<lifeVars, storeVars, particleVars, queryVars, serverVars, gimpl, showWind, ctxMode, gpu,
                 webglSupported, mode, numParticles, particleStateTextures,
                 screenTextures, texGen, pass, probes>>

GlNext ==
  \/ Show
  \/ PointsChange
  \/ Hide
  \/ GpuChange
  \/ Draw
  \/ OnResize
  \/ FallbackFrame

\* ======================================= Part IV: field and LOD queries
\* The interpolators and the LOD functions, applied to arguments drawn from
\* bounded sets.  Query positions and samples are in pixels (degrees for the
\* dense field), wind speeds in m/s.
SinDeg(d) == CASE d = 0 -> 0 [] d = 90 -> 1 [] d = 180 -> 0 [] d = 270 -> -1
CosDeg(d) == CASE d = 0 -> 1 [] d = 90 -> 0 [] d = 180 -> -1 [] d = 270 -> 0

GridPoints ==
  { [x |-> 0, y |-> 0, windSpeed |-> 2, windDir |-> 0],
    [x |-> 0, y |-> 1, windSpeed |-> 2, windDir |-> 90],
    [x |-> 1, y |-> 0, windSpeed |-> 2, windDir |-> 180],
    [x |-> QMax, y |-> 0, windSpeed |-> 1, windDir |-> 270],
    [x |-> 0, y |-> 0, windSpeed |-> 4, windDir |-> 90] }

\* the sample lists of the queries: no grid point twice, at most n points
RECURSIVE QLists(_)
QLists(n) ==
  IF n = 0 THEN {<<>>}
  ELSE LET shorter == QLists(n - 1)
           longest == {l \in shorter : Len(l) = n - 1}
       IN shorter \cup
          UNION {{Append(l, pt) : pt \in {g \in GridPoints :
                                             \A i \in 1..(n - 1) : l[i] # g}} :
                 l \in longest}

\* u = -sin(rad) * speed, v = -cos(rad) * speed of a grid point, the speed
\* scaled by k
WindOf(pt, k) ==
  [x |-> pt.x, y |-> pt.y,
   u |-> (0 - SinDeg(pt.windDir)) * pt.windSpeed * k,
   v |-> (0 - CosDeg(pt.windDir)) * pt.windSpeed * k,
   speed |-> pt.windSpeed * k]

\* the ScreenPoint of projectGridToScreen: knots = windSpeed * 0.5399, here
\* in 1/10000 of the unit of windSpeed
ToScreenPoint(pt) == WindOf(pt, KNOTS_E4)

\* interpolateWind of wind-layer.tsx: weights 1/d^4, no cut-off, the wind of
\* a point computed from windSpeed and windDir
InterpolateWindML(x, y, pts) ==
  IdwFrom(1, IdwZero, x, y, [i \in 1..Len(pts) |-> WindOf(pts[i], 1)], -1, 2)

\* PARTICLE_COUNT of the dense-field loop
DenseParticleCount(zoom) == IF zoom > 8 THEN 3000 ELSE IF zoom > 5 THEN 5000 ELSE 8000

DistSq(x, y, pt) == (x - pt.x) * (x - pt.x) + (y - pt.y) * (y - pt.y)

NoQuery == [x |-> -1, y |-> -1, pts |-> <<>>, maxDist |-> -1]
NoZoomQuery == [z1 |-> -1, z2 |-> -1]
NoLod == [z1 |-> [particleCount |-> 0], z2 |-> [particleCount |-> 0]]

\* the arguments of a field query; maxDist is the interpolation radius (the
\* range that the caller has in mind, for the functions that take none)
FieldQueries ==
  [x : 0..QMax, y : 0..1, pts : QLists(MaxSamples), maxDist : 0..QMaxDist]
ZoomQueries == [z1 : 0..MaxZoom, z2 : 0..MaxZoom]

NoUpdateQuery == [y |-> -1, box |-> <<>>]
NoEdges == [distortion |-> <<>>, lookup |-> <<>>, screen |-> <<>>]

\* the data bounding boxes of the wind texture: mercSouth and mercNorth of
\* encodeWindToTexture, in units of mercator y
MercBoxes ==
  { [mercSouth |-> 0, mercNorth |-> 4], [mercSouth |-> 0 - 2, mercNorth |-> 2],
    [mercSouth |-> 0 - 5, mercNorth |-> 0 - 1], [mercSouth |-> 1, mercNorth |-> 2] }

\* a particle of the state texture at the normalized position y / TexRows,
\* y = TexRows being the position 1.0
UpdateQueries == [y : 0..TexRows, box : MercBoxes]

\* mix(a, b, t) of GLSL at t = y / TexRows, times TexRows
Mix(a, b, y) == a * (TexRows - y) + b * y

\* encodeWindToTexture: the mercator y that the row ty of the pixel array is
\* computed for ("y runs top->bottom"), times TexRows; the array has
\* TexRows + 1 rows
PixelRowMerc(ty, box) == Mix(box.mercNorth, box.mercSouth, ty)

\* setWind uploads the pixel array with UNPACK_FLIP_Y_WEBGL = 1: the row of
\* the array that is at the texture coordinate y / TexRows
UnpackFlipY(y) == TexRows - y

\* FRAG_UPDATE: m = mix(u_merc_north, u_merc_south, pos.y), times TexRows
DistortionMerc(y, box) == Mix(box.mercNorth, box.mercSouth, y)

\* renderLoop and VERT_DRAW: pos.y = 0 is drawn at offsetY, the screen row of
\* map.project([east, south]), and pos.y = 1 at the row of [west, north]
ScreenMerc(y, box) == Mix(box.mercSouth, box.mercNorth, y)

\* no query is going on: fn is "init", the other variables are pinned to
\* the empty tuple
QueryIdle ==
  /\ fn = "init"
  /\ query = <<>>
  /\ answer = <<>>
  /\ zq = <<>>
  /\ lod = <<>>
  /\ uq = <<>>
  /\ edges = <<>>

\* the arguments of one query are given, the function is still to be called
QueryInit ==
  /\ fn = "init"
  /\ answer = NoWind
  /\ lod = NoLod
  /\ edges = NoEdges
  /\ \/ query \in FieldQueries /\ zq = NoZoomQuery /\ uq = NoUpdateQuery
     \/ query = NoQuery /\ zq \in ZoomQueries /\ uq = NoUpdateQuery
     \/ query = NoQuery /\ zq = NoZoomQuery /\ uq \in UpdateQueries

\* interpolateWind(x, y, projectGridToScreen(points), maxDist), part_006
QueryInterpolate ==
  /\ fn = "init"
  /\ query # NoQuery
  /\ fn' = "interpolateWind"
  /\ answer' = InterpolateWind(query.x, query.y,
                               [i \in 1..Len(query.pts) |-> ToScreenPoint(query.pts[i])],
                               query.maxDist)
  /\ UNCHANGED <<lifeVars, storeVars, particleVars, glVars, serverVars, query, zq, lod, uq, edges>>

\* interpolateWind(x, y, points, map), wind-layer.tsx
QueryInterpolateML ==
  /\ fn = "init"
  /\ query # NoQuery
  /\ fn' = "interpolateWindML"
  /\ answer' = InterpolateWindML(query.x, query.y, query.pts)
  /\ UNCHANGED <<lifeVars, storeVars, particleVars, glVars, serverVars, query, zq, lod, uq, edges>>

\* the texel of buildWindField / of encodeWindToTexture at (x, y)
QueryField ==
  /\ fn = "init"
  /\ query # NoQuery
  /\ \E f \in {"buildWindField", "encodeWindToTexture"} :
       /\ fn' = f
       /\ answer' = FieldTexel(query.x, query.y,
                               [i \in 1..Len(query.pts) |-> WindOf(query.pts[i], 1)],
                               IF f = "buildWindField" THEN 2 ELSE 1)
  /\ UNCHANGED <<lifeVars, storeVars, particleVars, glVars, serverVars, query, zq, lod, uq, edges>>

\* getZoomParams at two zoom levels
QueryZoomParams ==
  /\ fn = "init"
  /\ zq # NoZoomQuery
  /\ fn' = "getZoomParams"
  /\ lod' = [z1 |-> GetZoomParams(zq.z1), z2 |-> GetZoomParams(zq.z2)]
  /\ UNCHANGED <<lifeVars, storeVars, particleVars, glVars, serverVars, query, answer, zq, uq, edges>>

\* PARTICLE_COUNT of the dense-field loop at two zoom levels
QueryParticleCount ==
  /\ fn = "init"
  /\ zq # NoZoomQuery
  /\ fn' = "PARTICLE_COUNT"
  /\ lod' = [z1 |-> [particleCount |-> DenseParticleCount(zq.z1)],
             z2 |-> [particleCount |-> DenseParticleCount(zq.z2)]]
  /\ UNCHANGED <<lifeVars, storeVars, particleVars, glVars, serverVars, query, answer, zq, uq, edges>>

\* one particle of WindGL.updateParticles and drawParticles: where the update
\* shader takes its distortion from, which wind texel it reads, and where
\* the draw shader puts the particle
QueryUpdateStep ==
  /\ fn = "init"
  /\ uq # NoUpdateQuery
  /\ fn' = "updateParticles"
  /\ edges' = [distortion |-> <<DistortionMerc(uq.y, uq.box)>>,
               lookup |-> <<PixelRowMerc(UnpackFlipY(uq.y), uq.box)>>,
               screen |-> <<ScreenMerc(uq.y, uq.box)>>]
  /\ UNCHANGED <<lifeVars, storeVars, particleVars, glVars, serverVars, query, answer, zq, lod, uq>>

QueryNext ==
  \/ QueryUpdateStep
  \/ QueryInterpolate
  \/ QueryInterpolateML
  \/ QueryField
  \/ QueryZoomParams
  \/ QueryParticleCount

\* =============================================== Part V: the grid server
\* The handler of GET /api/grid-weather in the two servers that the
\* repository carries, "R12" (part_012, with cache, last-good data and
\* rate-limit memory) and "R13" (part_013, without them).  Latitudes and
\* longitudes are in tenths of a degree, directions in tenths of a degree
\* until Math.round, times in ms.  A body is what res.json sends: where its
\* points come from, the cache key they were fetched for, their number and
\* one of them (any one); a field of a point is <<>> for null and <<v>> for
\* the value v.
Diverges == 0 - 1

NoSample == [windDir |-> 0, waveHeight |-> <<>>, waveDir |-> <<>>, wavePeriod |-> <<>>]
NoBody == [origin |-> "null", key |-> <<>>, n |-> 0, sample |-> NoSample]
NoEntry == [data |-> NoBody, age |-> 0 - 1]
NoSent == [req |-> <<>>, status |-> 0, body |-> NoBody, called |-> FALSE, limited |-> FALSE]

\* the % of JavaScript: the result has the sign of the dividend
JsMod(a, m) == IF a >= 0 THEN a % m ELSE 0 - ((0 - a) % m)

\* the query strings of the requests: a viewport of 12 x 12 degrees, a point
\* viewport inside it, a viewport of the southern hemisphere, a point beyond
\* the pole, a point further beyond it, and a request with a missing bound
GridRequests ==
  { [south |-> 40, north |-> 160, west |-> -60, east |-> 60, nan |-> FALSE],
    [south |-> 100, north |-> 100, west |-> 0, east |-> 0, nan |-> FALSE],
    [south |-> -400, north |-> -200, west |-> 0, east |-> 400, nan |-> FALSE],
    [south |-> 960, north |-> 960, west |-> 0, east |-> 100, nan |-> FALSE],
    [south |-> 1000, north |-> 1000, west |-> 0, east |-> 100, nan |-> FALSE],
    [south |-> 0, north |-> 0, west |-> 0, east |-> 0, nan |-> TRUE] }

\* for (x = lo + step / 2; x <= hi; x += step) with step = span / parts:
\* the iterations made from the k-th on, x = lo + (2k + 1) * span / (2 * parts)
RECURSIVE LoopRuns(_, _, _)
LoopRuns(k, span, parts) ==
  IF k > MaxLoop THEN Diverges
  ELSE IF (2 * k + 1) * span <= 2 * parts * span THEN LoopRuns(k + 1, span, parts)
  ELSE k

\* the padded and clamped query grid of a request, and the number of
\* coordinate pairs that its loops collect
QueryGrid(variant, r) ==
  LET padLat == Max(0, (MIN_SPAN - (r.north - r.south)) \div 2)
      padLng == Max(0, (MIN_SPAN - (r.east - r.west)) \div 2)
      gs == Max(0 - 900, r.south - padLat)
      gn == Min(900, r.north + padLat)
      gw == r.west - padLng
      ge == r.east + padLng
      rows == LoopRuns(0, gn - gs, IF variant = "R12" THEN 5 ELSE 6)
      cols == LoopRuns(0, ge - gw, IF variant = "R12" THEN 7 ELSE 8)
  IN [gs |-> gs, gn |-> gn, gw |-> gw, ge |-> ge,
      key |-> <<gs, gn, gw, ge>>,
      n |-> IF rows = Diverges \/ (rows > 0 /\ cols = Diverges) THEN Diverges
            ELSE Min(rows * cols, IF variant = "R12" THEN 35 ELSE 50)]

CacheKeys == {QueryGrid("R12", r).key : r \in {q \in GridRequests : ~q.nan}}

\* Math.sin(...) * 30 and Math.sin(...) * 15 of generateSyntheticWindData, in
\* tenths of a degree: the phases hold the time, any value of the range occurs
DirVariations == {0 - 300, 0, 257}
WaveVariations == {0 - 150, 0}

\* generateSyntheticWindData(s, n, w, e): the bodies that it may return, none
\* if its loops do not end.  Wave height and period are at their lower clamps.
GenerateSyntheticWindData(s, n, w, e) ==
  LET rows == LoopRuns(0, n - s, 5)
      cols == LoopRuns(0, e - w, 7)
      Point(lat, dv, wv) ==
        LET dirBase == IF lat > 0 THEN 2250 + lat \div 2 ELSE 3150 - lat \div 2
            windDir == JsMod(JsMod(dirBase + dv, 3600) + 3600, 3600)
            isCoastal == (IF lat >= 0 THEN lat ELSE 0 - lat) < 600
            waveDir == JsMod(windDir + 100 + wv, 3600)
        IN [windDir |-> RoundTenths(windDir),
            waveHeight |-> IF isCoastal THEN <<2>> ELSE <<>>,
            waveDir |-> IF isCoastal /\ waveDir # 0 THEN <<RoundTenths(waveDir)>> ELSE <<>>,
            wavePeriod |-> IF isCoastal THEN <<40>> ELSE <<>>]
  IN IF rows = Diverges \/ (rows > 0 /\ cols = Diverges) THEN {}
     ELSE IF rows * cols = 0
       THEN {[origin |-> "synthetic", key |-> <<>>, n |-> 0, sample |-> NoSample]}
     ELSE {[origin |-> "synthetic", key |-> <<>>, n |-> rows * cols,
            sample |-> Point(s + ((2 * k + 1) * (n - s)) \div 10, dv, wv)] :
             k \in 0..(rows - 1), dv \in DirVariations, wv \in WaveVariations}

\* what the two upstream calls may come back with: the current conditions of
\* every pair asked for (numbers as the service sends them, a land point, a
\* point with a wave height and no wave period), replies without a current
\* block, an error payload, a rejected fetch or a body that is not JSON
UpstreamReplies ==
  {[kind |-> "ok", current |-> c] :
     c \in {[windDir |-> 180, waveHeight |-> <<12>>, waveDir |-> <<200>>, wavePeriod |-> <<80>>],
            [windDir |-> 360, waveHeight |-> <<>>, waveDir |-> <<>>, wavePeriod |-> <<>>],
            [windDir |-> 0, waveHeight |-> <<3>>, waveDir |-> <<200>>, wavePeriod |-> <<>>]}}
  \cup {[kind |-> k, current |-> NoSample] : k \in {"no_current", "error", "throw"}}

\* const points = []; for (...) if (wd && wd.current) points.push({...})
BuildPoints(reply, g) ==
  IF reply.kind = "ok"
    THEN [origin |-> "upstream", key |-> g.key, n |-> g.n, sample |-> reply.current]
    ELSE [origin |-> "upstream", key |-> g.key, n |-> 0, sample |-> NoSample]

\* a rate-limit memory of half the time
RateLimitedHalf(left) == 2 * left > RATE_LIMIT_MS

\* if (Date.now() < gridRateLimitUntil)
RateLimited(left) == left > 0

\* if (cached) return cached.data; if (lastGoodGridData) return its data;
\* return generateSyntheticWindData(gs, gn, gw, ge)
Fallback(cached, g) ==
  IF cached # NoBody THEN {cached}
  ELSE IF lastGoodGridData # NoBody THEN {lastGoodGridData}
  ELSE GenerateSyntheticWindData(g.gs, g.gn, g.gw, g.ge)

\* the server while another part of the model is looked at: its variables
\* are pinned, those that hold records to the empty tuple
ServerIdle ==
  /\ srv = "R12"
  /\ gridWeatherCache = <<>>
  /\ lastGoodGridData = <<>>
  /\ gridRateLimit = 0
  /\ awaiting = <<>>
  /\ sinceError = RATE_LIMIT_MS
  /\ hung = FALSE
  /\ sent = <<>>

ServerInit ==
  /\ srv \in {"R12", "R13"}
  /\ gridWeatherCache = [k \in CacheKeys |-> NoEntry]
  /\ lastGoodGridData = NoBody
  /\ gridRateLimit = 0
  /\ awaiting = <<>>
  /\ sinceError = RATE_LIMIT_MS
  /\ hung = FALSE
  /\ sent = NoSent

\* a request arrives: the handler up to its response or to the await
Arrive ==
  \E r \in GridRequests :
    LET g == QueryGrid(srv, r)
        cached == IF g.key \in CacheKeys THEN gridWeatherCache[g.key] ELSE NoEntry
        recent == sinceError < RATE_LIMIT_MS
        Reply(status, body) ==
          /\ sent' = [req |-> r, status |-> status, body |-> body, called |-> FALSE,
                      limited |-> recent]
          /\ UNCHANGED <<awaiting, hung>>
    IN /\ ~hung
       /\ IF r.nan THEN Reply(400, NoBody)
          ELSE IF g.n = Diverges THEN hung' = TRUE /\ UNCHANGED <<awaiting, sent>>
          ELSE IF g.n = 0 THEN Reply(200, [NoBody EXCEPT !.origin = "empty"])
          ELSE IF srv = "R12" /\ cached # NoEntry /\ cached.age < GRID_CACHE_TTL
            THEN Reply(200, cached.data)
          ELSE IF srv = "R12" /\ RateLimited(gridRateLimit)
            THEN \E b \in Fallback(cached.data, g) : Reply(200, b)
          ELSE /\ Len(awaiting) < MaxAwaiting
               /\ awaiting' = Append(awaiting, [req |-> r, cached |-> cached.data,
                                                limited |-> recent])
               /\ sent' = NoSent
               /\ UNCHANGED hung
       /\ UNCHANGED <<lifeVars, storeVars, particleVars, queryVars, glVars, srv, gridWeatherCache,
                      lastGoodGridData, gridRateLimit, sinceError>>

\* the upstream replies of one awaiting request arrive: its handler from the
\* await to its response, the catch block included
Settle ==
  \E i \in 1..Len(awaiting), reply \in UpstreamReplies :
    LET a == awaiting[i]
        g == QueryGrid(srv, a.req)
        result == BuildPoints(reply, g)
        raw(v, d) == IF v = 0 THEN d ELSE v
        Reply(status, body) ==
          /\ sent' = [req |-> a.req, status |-> status, body |-> body, called |-> TRUE,
                      limited |-> a.limited]
          /\ UNCHANGED hung
        ReplyAny(bodies) ==
          IF bodies = {} THEN hung' = TRUE /\ UNCHANGED sent
          ELSE \E b \in bodies : Reply(200, b)
    IN /\ ~hung
       /\ awaiting' = RemoveAt(awaiting, i)
       /\ sinceError' = IF reply.kind = "error" THEN 0 ELSE sinceError
       /\ IF reply.kind = "throw"
            THEN /\ IF srv = "R13" THEN Reply(500, NoBody)
                    ELSE IF lastGoodGridData # NoBody THEN Reply(200, lastGoodGridData)
                    ELSE ReplyAny(GenerateSyntheticWindData(
                           raw(a.req.south, 0 - 300), raw(a.req.north, 500),
                           raw(a.req.west, 0 - 1300), raw(a.req.east, 0 - 600)))
                 /\ UNCHANGED <<gridWeatherCache, lastGoodGridData, gridRateLimit>>
          ELSE IF srv = "R12" /\ reply.kind = "error"
            THEN /\ gridRateLimit' = RATE_LIMIT_MS
                 /\ ReplyAny(Fallback(a.cached, g))
                 /\ UNCHANGED <<gridWeatherCache, lastGoodGridData>>
          ELSE IF srv = "R12"
            THEN /\ gridWeatherCache' =
                      [gridWeatherCache EXCEPT ![g.key] = [data |-> result, age |-> 0]]
                 /\ lastGoodGridData' = result
                 /\ Reply(200, result)
                 /\ UNCHANGED gridRateLimit
          ELSE /\ Reply(200, result)
               /\ UNCHANGED <<gridWeatherCache, lastGoodGridData, gridRateLimit>>
       /\ UNCHANGED <<lifeVars, storeVars, particleVars, queryVars, glVars, srv>>

\* time passes: ServerTickMs while an upstream error is recent, the life of a
\* cache entry otherwise
Advance ==
  \E d \in {ServerTickMs, GRID_CACHE_TTL} :
    /\ ~hung
    /\ (d = ServerTickMs) = (sinceError < RATE_LIMIT_MS)
    /\ gridWeatherCache' =
         [k \in CacheKeys |->
            IF gridWeatherCache[k] = NoEntry THEN NoEntry
            ELSE [gridWeatherCache[k] EXCEPT !.age = Min(@ + d, GRID_CACHE_TTL)]]
    /\ gridRateLimit' = Max(0, gridRateLimit - d)
    /\ sinceError' = Min(sinceError + d, RATE_LIMIT_MS)
    /\ sent' = NoSent
    /\ UNCHANGED <<lifeVars, storeVars, particleVars, queryVars, glVars, srv, lastGoodGridData,
                   awaiting, hung>>

ServerNext ==
  \/ Arrive
  \/ Settle
  \/ Advance

\* ============== Part VI: the life of WindGL under WindWaveLayer's effect
\* a texture is named by the WindGL that made it and its number among the
\* textures of that WindGL; <<>> is no texture
NoTex == <<>>
NoLifeEv == [step |-> "init", late |-> {}, stale |-> FALSE, destroyed |-> 0, leaked |-> {}]

\* the fields of a WindGL before its constructor has made a texture
WindGLFields(i) ==
  [id |-> i, made |-> 0, destroyed |-> FALSE, windTexture |-> NoTex,
   particleStateTextures |-> <<NoTex, NoTex>>, screenTextures |-> <<NoTex, NoTex>>]

\* In the operators below o = [w, gl]: the fields of a WindGL and the
\* textures of its context.
\* WindGL.setNumParticles: two new state textures
WindGLSetNumParticles(o) ==
  LET a == <<o.w.id, o.w.made + 1>>
      b == <<o.w.id, o.w.made + 2>>
  IN [w |-> [o.w EXCEPT !.particleStateTextures = <<a, b>>, !.made = @ + 2],
      gl |-> o.gl \cup {a, b}]

\* WindGL.resizeScreen: the screen textures are deleted, two new ones made
WindGLResizeScreen(o) ==
  LET a == <<o.w.id, o.w.made + 1>>
      b == <<o.w.id, o.w.made + 2>>
  IN [w |-> [o.w EXCEPT !.screenTextures = <<a, b>>, !.made = @ + 2],
      gl |-> (o.gl \ {o.w.screenTextures[1], o.w.screenTextures[2]}) \cup {a, b}]

\* WindGL.setWind: the wind texture is deleted, a new one made
WindGLSetWind(o) ==
  LET a == <<o.w.id, o.w.made + 1>>
  IN [w |-> [o.w EXCEPT !.windTexture = a, !.made = @ + 1],
      gl |-> (o.gl \ {o.w.windTexture}) \cup {a}]

\* new WindGL(gl): setNumParticles(65536), then resizeScreen()
WindGLNew(i, gl) ==
  WindGLResizeScreen(WindGLSetNumParticles([w |-> WindGLFields(i), gl |-> gl]))

\* WindGL.draw: drawScreen and updateParticles swap the two pairs
WindGLDraw(o) ==
  IF o.w.windTexture = NoTex THEN o
  ELSE [o EXCEPT !.w.screenTextures = <<@[2], @[1]>>,
                 !.w.particleStateTextures = <<@[2], @[1]>>]

\* WindGL.destroy: the textures that the fields hold are deleted
WindGLDestroy(o) ==
  [w |-> [o.w EXCEPT !.destroyed = TRUE],
   gl |-> o.gl \ {o.w.windTexture, o.w.particleStateTextures[1],
                  o.w.particleStateTextures[2], o.w.screenTextures[1],
                  o.w.screenTextures[2]}]

\* (a clean-up that leaves the frame request alone, the variant that C29 is
\* tested against)
CancelNothing(queue, id) == queue

\* cancelAnimationFrame(id)
CancelAnimationFrame(queue, id) == queue \ {id}

\* the component while another part of the model is looked at: its
\* variables are pinned, those that hold records to the empty tuple
LifecycleIdle ==
  /\ props = <<>>
  /\ mounted = "new"
  /\ cleanup = 0
  /\ windGlRef = 0
  /\ animFrameRef = 0
  /\ rafQueue = {}
  /\ winds = <<>>
  /\ glTextures = {}
  /\ cleaned = {}
  /\ lifeEv = <<>>

\* WindWaveLayer is rendered for the first time, its effect has not run;
\* points: whether the sample set is non-empty
LifecycleInit ==
  /\ props \in [showWind : BOOLEAN, points : BOOLEAN]
  /\ mounted = "new"
  /\ cleanup = 0
  /\ windGlRef = 0
  /\ animFrameRef = 0
  /\ rafQueue = {}
  /\ winds = <<>>
  /\ glTextures = {}
  /\ cleaned = {}
  /\ lifeEv = NoLifeEv

\* In the operators below s = [ref, anim, raf, winds, gl, cleaned, late,
\* destroyed, leaked]: the refs, the frame requests, the WindGL objects, the
\* textures, and what the step has done so far.
\* a call of destroy() on the WindGL number i
CallDestroy(s, i) ==
  LET o == WindGLDestroy([w |-> s.winds[i], gl |-> s.gl])
  IN [s EXCEPT !.winds[i] = o.w, !.gl = o.gl,
               !.late = IF s.winds[i].destroyed THEN @ \cup {<<"destroy", i>>} ELSE @,
               !.destroyed = i,
               !.leaked = {t \in o.gl : t[1] = i}]

\* a call of draw() on the WindGL number i
CallDraw(s, i) ==
  LET o == WindGLDraw([w |-> s.winds[i], gl |-> s.gl])
  IN [s EXCEPT !.winds[i] = o.w, !.gl = o.gl,
               !.late = IF s.winds[i].destroyed THEN @ \cup {<<"draw", i>>} ELSE @]

\* renderLoop of the WindGL number i: nothing while windGlRef.current is
\* null, else wind.draw() and the request of the next frame
RenderLoop(s, i) ==
  IF s.ref = 0 THEN s
  ELSE [CallDraw(s, i) EXCEPT !.anim = i, !.raf = @ \cup {i}]

\* the clean-up that initWebGL returned for the WindGL number i
RunCleanup(s, i) ==
  LET c == [s EXCEPT !.raf = CancelAnimationFrame(@, s.anim), !.cleaned = @ \cup {i}]
      d == IF c.ref # 0 THEN CallDestroy(c, c.ref) ELSE c
  IN [d EXCEPT !.ref = 0]

\* the body of the wind effect: the early return when there is nothing to
\* show, else initWebGL if the canvas gives a WebGL context (ok), else
\* initCanvas2DFallback; .cleanup is the clean-up it returns
RunEffectBody(s, p, ok) ==
  IF ~p.showWind \/ ~p.points
    THEN LET d == IF s.ref # 0 THEN CallDestroy(s, s.ref) ELSE s
         IN [st |-> [d EXCEPT !.ref = 0], cleanup |-> 0]
    ELSE IF ~ok THEN [st |-> s, cleanup |-> 0]
    ELSE LET i == Len(s.winds) + 1
             o == WindGLSetNumParticles(WindGLSetWind(WindGLNew(i, s.gl)))
             t == [s EXCEPT !.ref = i, !.winds = Append(@, o.w), !.gl = o.gl]
         IN [st |-> RenderLoop(t, i), cleanup |-> i]

Current ==
  [ref |-> windGlRef, anim |-> animFrameRef, raf |-> rafQueue, winds |-> winds,
   gl |-> glTextures, cleaned |-> cleaned, late |-> {}, destroyed |-> 0,
   leaked |-> {}]

Becomes(s, step, stale) ==
  /\ windGlRef' = s.ref
  /\ animFrameRef' = s.anim
  /\ rafQueue' = s.raf
  /\ winds' = s.winds
  /\ glTextures' = s.gl
  /\ cleaned' = s.cleaned
  /\ lifeEv' = [step |-> step, late |-> s.late, stale |-> stale,
                destroyed |-> s.destroyed, leaked |-> s.leaked]

\* React commits a render in which points, showWind, map or syncCanvasSize
\* has a new value (or the first render): the clean-up of the last run of
\* the effect, then its body
Commit ==
  \E p \in [showWind : BOOLEAN, points : BOOLEAN], ok \in BOOLEAN :
    /\ mounted # "no"
    /\ mounted = "new" => p = props
    /\ (p.showWind /\ p.points /\ ok) => Len(winds) < MaxWinds
    /\ LET c == IF cleanup # 0 THEN RunCleanup(Current, cleanup) ELSE Current
           r == RunEffectBody(c, p, ok)
       IN /\ Becomes(r.st, "commit", FALSE)
          /\ cleanup' = r.cleanup
    /\ props' = p
    /\ mounted' = "yes"
    /\ UNCHANGED <<storeVars, particleVars, queryVars, glVars, serverVars>>

\* WindWaveLayer is unmounted: the clean-up of the last run of the effect
Unmount ==
  /\ mounted = "yes"
  /\ Becomes(IF cleanup # 0 THEN RunCleanup(Current, cleanup) ELSE Current,
             "unmount", FALSE)
  /\ cleanup' = 0
  /\ mounted' = "no"
  /\ UNCHANGED <<storeVars, particleVars, queryVars, glVars, serverVars, props>>

\* the browser runs a requested animation frame: renderLoop
AnimationFrame ==
  \E i \in rafQueue :
    /\ Becomes(RenderLoop([Current EXCEPT !.raf = @ \ {i}], i), "frame", i \in cleaned)
    /\ UNCHANGED <<storeVars, particleVars, queryVars, glVars, serverVars, props, mounted,
                   cleanup>>

LifecycleNext ==
  \/ Commit
  \/ Unmount
  \/ AnimationFrame

\* ======================================================= specifications
QuerySpecInit ==
  /\ QueryInit
  /\ StoreIdle
  /\ ParticleIdle
  /\ GlIdle
  /\ ServerIdle
  /\ LifecycleIdle

QuerySpec == QuerySpecInit /\ [][QueryNext]_vars


ParticleSpecInit ==
  /\ ParticleInit
  /\ StoreIdle
  /\ QueryIdle
  /\ GlIdle
  /\ ServerIdle
  /\ LifecycleIdle

ParticleSpec == ParticleSpecInit /\ [][ParticleNext]_vars

\* the LOD loop together with the refresh of its samples (LodSpec)
LodNext ==
  \/ MapMove
  \/ MapZoom
  \/ Resize
  \/ AnimateLod
  \/ EffectRerun

\* ... started with the two samples of opposite winds
LodSpecInit ==
  /\ ParticleInit
  /\ engine = "A"
  /\ Len(samples) = 2
  /\ StoreIdle
  /\ QueryIdle
  /\ GlIdle
  /\ ServerIdle
  /\ LifecycleIdle

LodSpec == LodSpecInit /\ [][LodNext]_vars

StoreSpecInit ==
  /\ StoreInit
  /\ ParticleIdle
  /\ QueryIdle
  /\ GlIdle
  /\ ServerIdle
  /\ LifecycleIdle

StoreSpec == StoreSpecInit /\ [][StoreNext]_vars

GlSpecInit ==
  /\ GlInit
  /\ StoreIdle
  /\ ParticleIdle
  /\ QueryIdle
  /\ ServerIdle
  /\ LifecycleIdle

GlSpec == GlSpecInit /\ [][GlNext]_vars

ServerSpecInit ==
  /\ ServerInit
  /\ StoreIdle
  /\ ParticleIdle
  /\ QueryIdle
  /\ GlIdle
  /\ LifecycleIdle

ServerSpec == ServerSpecInit /\ [][ServerNext]_vars

LifecycleSpecInit ==
  /\ LifecycleInit
  /\ StoreIdle
  /\ ParticleIdle
  /\ QueryIdle
  /\ GlIdle
  /\ ServerIdle

LifecycleSpec == LifecycleSpecInit /\ [][LifecycleNext]_vars

\* ------------------------------------------------------- claims, Part I
\* C2: a grid-weather response is applied to the sample set only if the
\* viewport it was requested for is still the current one (same bounds key)
\* and the overlay is still visible; a stale response is never applied.
C2_StaleDiscarded ==
  lastCall.applied =>
    (BoundsKey(impl, points.req) = BoundsKey(impl, viewport) /\ visible)

\* C6: with only empty point lists coming back, at most MAX_RETRIES retries
\* are scheduled, retry k waits min(5000 * 2^(k-1), 30000) ms (non-decreasing,
\* never above 30 s), and once the last allowed retry has come back empty no
\* retry timer is pending and no request is issued for the unchanged viewport.
C6_BoundedRetries ==
  /\ retryCountRef <= MAX_RETRIES
  /\ \A i \in 1..Len(retryTimers) :
        LET t == retryTimers[i]
            raw == 5000 * Pow2(t.k - 1) IN
        /\ t.k \in 1..MAX_RETRIES
        /\ t.delay = (IF raw < 30000 THEN raw ELSE 30000)
        /\ t.delay <= 30000
        /\ \A j \in 1..Len(retryTimers) :
              retryTimers[j].k <= t.k => retryTimers[j].delay <= t.delay
  /\ lastAttempt = "done" => (retryTimers = <<>> /\ ~lastCall.issued)

C6_Exhausted ==
  /\ impl = "B"
  /\ lastAttempt = "done"
  /\ retryCountRef = MAX_RETRIES
  /\ lastCall.op \in {"moveend", "debounce", "toggle"}
  /\ lastCall.called

\* C7: once a non-empty sample set has been applied, no fetch outcome
\* replaces it with an empty one.
C7_KeepsLastGood == [][points.n > 0 => points'.n > 0]_vars

\* C8: every failed fetch (exception or non-OK status) is followed by a
\* scheduled retry while fewer than MAX_RETRIES retries have been made.
C8_FailureRetried ==
  (/\ lastCall.op = "respond"
   /\ lastCall.outcome \in {"throw", "http_429", "http_500"}
   /\ retryCountRef < MAX_RETRIES)
    => lastCall.scheduled

\* C9: after a non-empty fetch for the current bounds key succeeded, no
\* request is issued while that key is unchanged.
C9_NoRefetch == ~(settled /\ lastCall.issued)

\* C10: a pan/zoom-driven call of fetchGridData happens only once
\* DEBOUNCE_MS have passed since the last moveend/zoomend, and at most one
\* debounce timer is pending.
C10_Debounced ==
  /\ Len(debounceTimers) <= 1
  /\ (lastCall.called /\ lastCall.op \in {"moveend", "zoomend", "debounce"})
        => sinceMove >= DEBOUNCE_MS
\* ------------------------------------------------------ claims, Part II
\* C1: a particle whose field query yields no data is respawned in that
\* frame (random position, age 0); it is never left holding its place.
C1_NoDataRespawns ==
  \A i \in 1..Len(particles) :
     NoData(particles[i].ev) =>
       (Respawned(particles[i].ev) /\ particles[i].age = 0)

\* C3: right after a frame, every particle that the frame respawned lies
\* within the current canvas (0 <= x <= width, 0 <= y <= height) and has
\* age 0, also when the frame changed the canvas size.
C3_RespawnInViewport ==
  (pop = "frame" /\ engine \in {"A", "B", "C"}) =>
    \A i \in 1..Len(particles) :
       Respawned(particles[i].ev) =>
         /\ particles[i].x >= 0 /\ particles[i].x <= canvas.w
         /\ particles[i].y >= 0 /\ particles[i].y <= canvas.h
         /\ particles[i].age = 0

\* C4: in every state from the creation of the pool on, every CPU particle
\* has age <= maxAge.
C4_AgeBounded ==
  engine \in {"A", "B", "C"} =>
    \A i \in 1..Len(particles) : particles[i].age <= particles[i].maxAge

\* C5: a particle whose movement takes it out of the domain is respawned;
\* it never re-enters at the opposite edge.
C5_NoWrap ==
  \A i \in 1..Len(particles) :
     Exited(particles[i].ev) => Respawned(particles[i].ev)

\* ------------------------------------------------------- claims, Part IV
\* the samples of the query that lie within its radius, in list order
WithinRadius(q) ==
  SelectSeq(q.pts, LAMBDA pt : DistSq(q.x, q.y, pt) <= q.maxDist * q.maxDist)
NoneWithinRadius(q) == Len(WithinRadius(q)) = 0

\* the samples of the query at less than one pixel from its position
AtQuery(q) == SelectSeq(q.pts, LAMBDA pt : DistSq(q.x, q.y, pt) < 1)

\* C11: interpolateWind returns null, never a numeric vector, when the sample
\* list is empty or every sample is farther than maxDist from (x, y), and a
\* sample beyond maxDist contributes nothing: the result is the one that the
\* samples within maxDist give alone
C11_NullBeyondRadius ==
  fn = "interpolateWind" =>
    /\ NoneWithinRadius(query) => answer = NoWind
    /\ answer = InterpolateWind(query.x, query.y,
                                [i \in 1..Len(WithinRadius(query)) |->
                                   ToScreenPoint(WithinRadius(query)[i])],
                                query.maxDist)

\* interpolateWind was called with samples that are all beyond maxDist, and
\* returned null
C11_AllBeyond ==
  /\ fn = "interpolateWind"
  /\ Len(query.pts) > 1
  /\ NoneWithinRadius(query)
  /\ answer = NoWind

\* C12: the dense-field path (a texel of buildWindField or of
\* encodeWindToTexture) gives null, not a numeric vector, for a position that
\* has no sample within range
C12_FieldNullBeyondRange ==
  fn \in {"buildWindField", "encodeWindToTexture"} /\ NoneWithinRadius(query)
    => answer = NoWind

\* C13: when a sample lies at less than one pixel from the query point
\* (squared distance < 1), both interpolators return exactly the value of
\* that sample (the first such sample of the list), whatever the others are
C13_ExactAtSample ==
  /\ fn = "interpolateWind" /\ Len(AtQuery(query)) > 0 =>
       LET sp == ToScreenPoint(AtQuery(query)[1]) IN
       answer = [u |-> sp.u, v |-> sp.v, speed |-> sp.speed, den |-> 1]
  /\ fn = "interpolateWindML" /\ Len(AtQuery(query)) > 0 =>
       LET pt == AtQuery(query)[1] IN
       answer = [u |-> (0 - SinDeg(pt.windDir)) * pt.windSpeed,
                 v |-> (0 - CosDeg(pt.windDir)) * pt.windSpeed,
                 speed |-> pt.windSpeed, den |-> 1]

\* the query at (0, 0) with the samples (0, 0, dir 0), (0, 1, dir 90) and
\* (1, 0, dir 180) returned the wind of the first sample: u = 0, v = -speed
C13_FirstSample ==
  /\ fn = "interpolateWindML"
  /\ query.x = 0 /\ query.y = 0
  /\ query.pts = << [x |-> 0, y |-> 0, windSpeed |-> 2, windDir |-> 0],
                    [x |-> 0, y |-> 1, windSpeed |-> 2, windDir |-> 90],
                    [x |-> 1, y |-> 0, windSpeed |-> 2, windDir |-> 180] >>
  /\ answer = [u |-> 0, v |-> -2, speed |-> 2, den |-> 1]

\* C16: the LOD function is monotonic: for zoom levels z1 <= z2 the particle
\* count at z1 is at least the one at z2 (getZoomParams and PARTICLE_COUNT of
\* the dense-field loop) and the interpolation radius at z1 is at most the
\* one at z2 (getZoomParams)
C16_LodMonotonic ==
  zq # NoZoomQuery /\ zq.z1 <= zq.z2 =>
    /\ fn \in {"getZoomParams", "PARTICLE_COUNT"} =>
         lod.z1.particleCount >= lod.z2.particleCount
    /\ fn = "getZoomParams" => lod.z1.interpRadius <= lod.z2.interpRadius

\* getZoomParams was asked at two zoom levels between which the particle
\* count falls and the radius grows
C16_Falls ==
  /\ fn = "getZoomParams"
  /\ zq.z1 < zq.z2
  /\ lod.z1.particleCount > lod.z2.particleCount
  /\ lod.z1.interpRadius < lod.z2.interpRadius

\* C17: at zoom 3, and at every zoom at or below the base zoom, getZoomParams
\* yields the far-zoom tier: no zoom level z2 of the range has a larger
\* particle count or a smaller trail fade
C17_FarZoomTier ==
  fn = "getZoomParams" /\ zq.z1 <= BASE_ZOOM =>
    /\ lod.z1.particleCount >= lod.z2.particleCount
    /\ lod.z1.trailFade <= lod.z2.trailFade

\* getZoomParams at zoom 3 gave 1500 particles and the trail fade 0.92, and
\* at zoom 10 fewer particles and a larger trail fade
C17_Zoom3 ==
  /\ fn = "getZoomParams"
  /\ zq.z1 = 3 /\ zq.z2 = 10
  /\ lod.z1.particleCount = LOD_PARTICLES
  /\ lod.z1.trailFade = 828
  /\ lod.z2.particleCount < lod.z1.particleCount
  /\ lod.z2.trailFade > lod.z1.trailFade

\* ------------------------------------------ claims, Part II (continued)
\* what one frame of the LOD loop at zoom level zoom can make of particle p
AfterFrame(p, zoom) ==
  LET zp == GetZoomParams(zoom) IN
  {StepLod(p, canvas.w, canvas.h, ProjectGridToScreen(samples, origin),
           Cells(zp.interpRadius), d) :
     d \in Draws(canvas.w, canvas.h, ScaleAge(zp.maxAge),
                 ScaleAge(zp.maxAge + LOD_AGE_JITTER - 1))}

\* the step changes the pool because the zoom has changed: the frame that
\* finds a new zoom level, or the effect that runs again for the refetched
\* samples
ZoomChangesPool ==
  /\ engine = "A"
  /\ \/ pop' = "frame" /\ zoomDirty /\ mapZoom # zoomRef
     \/ pop' = "effect"

\* C14: when a zoom change alters the target particle count, the pool has
\* the target length afterwards and its first min(old length, target length)
\* entries are the particles that were there before (as the frame leaves
\* them); a zoom change never has the whole pool discarded and seeded anew
C14_ZoomKeepsPool ==
  [][ZoomChangesPool =>
       /\ Len(particles') = PoolLen(GetZoomParams(mapZoom).particleCount)
       /\ \A i \in 1..Min(Len(particles), Len(particles')) :
            particles'[i] \in AfterFrame(particles[i], mapZoom)]_vars

\* C15: in every frame that follows a change of the map origin, every
\* particle is shifted by the delta between the previous and the current
\* origin before it is advected, whichever map events came before the frame
C15_ShiftedByDelta ==
  [][engine = "A" /\ pop' = "frame" /\ prevOrigin # origin =>
       \A i \in 1..Min(Len(particles), Len(particles')) :
         particles'[i] \in AfterFrame(Shift(particles, prevOrigin - origin)[i],
                                     zoomRef')]_vars

\* ------------------------------------------------------ claims, Part III
\* C18: every draw() that has wind data runs the fade, draw and update
\* passes and ends with the swaps: the update pass reads one particle-state
\* texture and writes the other, the two change places once, so that the
\* texture written in one frame is the one read in the next, and the same
\* holds for the two screen textures
C18_PingPong ==
  glStep = "draw" =>
    /\ pass.passes = <<"fade", "draw", "update">>
    /\ pass.stateRead # pass.stateWritten
    /\ pass.particlesRead = pass.stateRead
    /\ particleStateTextures = <<pass.stateWritten, pass.stateRead>>
    /\ pass.stateDue \in {NoTexture, pass.stateRead}
    /\ pass.screenRead # pass.screenWritten
    /\ pass.presented = pass.screenWritten
    /\ screenTextures = <<pass.screenWritten, pass.screenRead>>
    /\ pass.screenDue \in {NoTexture, pass.screenRead}

\* a frame was drawn after another one: it read the textures that the frame
\* before had written
C18_SecondFrame ==
  /\ glStep = "draw"
  /\ pass.stateDue # NoTexture
  /\ pass.stateRead = pass.stateDue
  /\ pass.screenDue # NoTexture
  /\ pass.screenRead = pass.screenDue

\* C19: the overlay probes for WebGL at most once and keeps the answer in
\* webglSupported: once the flag is set there is no further probe, once it is
\* "no" it stays "no", and no animation frame asks the canvas for a WebGL
\* context
C19_ProbedOnce ==
  /\ [](/\ probes <= 1
        /\ (webglSupported = "null") = (probes = 0)
        /\ glStep \in {"draw", "fallback_frame"} => glCalls = 0)
  /\ [][/\ webglSupported # "null" => probes' = probes
        /\ webglSupported = "no" => webglSupported' = "no"]_vars

\* the effect ran again with the flag at "no" while WebGL contexts could be
\* created: there was no second probe and no call of getContext("webgl")
C19_Cached ==
  /\ glStep = "points"
  /\ webglSupported = "no"
  /\ gpu
  /\ probes = 1
  /\ glCalls = 0

\* C20: when the creation of the WebGL context has failed, the overlay runs
\* the Canvas2D loop, with fewer particles than any WebGL tier has, and the
\* wind layer is never left blank
C20_FallbackAnimates ==
  showWind /\ webglSupported = "no" =>
    /\ mode = "canvas2d"
    /\ numParticles > 0
    /\ \A zoom \in PZooms : numParticles < NumParticles(GlParticleCount(gimpl, zoom))

\* ------------------------------------------------------ claims, Part V
\* C21: every request with numeric bounds is answered with a {points: [...]}
\* body and status 200, never with an error status, whatever the upstream
\* did (error payload, rate limit, rejected fetch).
C21_NeverErrorStatus ==
  IF sent = NoSent THEN TRUE
  ELSE ~sent.req.nan => (sent.status = 200 /\ sent.body # NoBody)

\* C22: every GridSample delivered, built from the upstream reply or
\* generated synthetically, has windDir in [0, 360).
C22_WindDirInRange ==
  (sent.status = 200 /\ sent.body.n > 0) =>
    (sent.body.sample.windDir >= 0 /\ sent.body.sample.windDir < 360)

\* C23: in every GridSample delivered, waveHeight, waveDir and wavePeriod are
\* all null or all non-null.
C23_WaveFieldsJoint ==
  (sent.status = 200 /\ sent.body.n > 0) =>
    LET p == sent.body.sample IN
    /\ (p.waveHeight = <<>>) = (p.waveDir = <<>>)
    /\ (p.waveDir = <<>>) = (p.wavePeriod = <<>>)

\* C24: for every request with numeric bounds the handler terminates: the
\* loops over latitude and longitude of the query grid and of the synthetic
\* fallback always end, so the event loop is never held by one of them.
C24_LoopsEnd == ~hung

\* C27: the last-good data and every cache entry hold a non-empty point
\* list, so an answer served from last-good data is never empty.
C27_LastGoodNonEmpty ==
  /\ lastGoodGridData # NoBody => lastGoodGridData.n > 0
  /\ \A k \in CacheKeys :
        gridWeatherCache[k] # NoEntry => gridWeatherCache[k].data.n > 0

C25_NoFetchWhileHidden == lastCall.issued => visible

\* ---------------------------------------------------------------------------
\* claims, Part II (continued)
\* ---------------------------------------------------------------------------

\* C26: in the GPU update step the latitude that the cos(latitude) distortion
\* of a particle at the normalized position y is computed from is the
\* latitude of the wind-texture row that is read at y and of the screen row
\* the particle is drawn at: y = 0 is the south edge of the data bounding box
\* in all three
C26_SameEdge ==
  fn = "updateParticles" =>
    /\ edges.distortion = edges.lookup
    /\ edges.distortion = edges.screen
    /\ (uq.y = 0 => edges.distortion = <<TexRows * uq.box.mercSouth>>)

\* the wind lookup and the viewport mapping agree with each other
C26_LookupIsScreen ==
  fn = "updateParticles" => edges.lookup = edges.screen

\* ---------------------------------------------------------------------------
\* claims, Part VI
\* ---------------------------------------------------------------------------

\* C29: across any sequence of sample-set changes, showWind toggles and
\* unmounts, no step calls draw() or destroy() on a WindGL on which destroy()
\* has been called before, and no frame of the render loop of a run of the
\* effect runs after the clean-up of that run
C29_NoUseAfterDestroy ==
  /\ lifeEv.late = {}
  /\ ~lifeEv.stale

\* a second WindGL draws a frame after the first one has been destroyed
C29_SecondLoopRuns ==
  /\ lifeEv.step = "frame"
  /\ windGlRef = 2
  /\ winds[1].destroyed
  /\ 1 \in cleaned

\* C30: when destroy() returns, every texture that the WindGL has made (in
\* its constructor, in setNumParticles, resizeScreen and setWind) is deleted
C30_NoTextureLeft ==
  lifeEv.destroyed # 0 => lifeEv.leaked = {}
====
